---------------------------- MODULE Spec2Model ----------------------------
(***************************************************************************)
(* The conversation controller of the chat extension                       *)
(* (class AIChatViewProvider): the message history, the two presentation   *)
(* surfaces (the side panel `_view` and the detachable panel `_panel`),    *)
(* the user turn with its provider call, the direct send commands, the     *)
(* inline apply with its undo listeners and the preview flow.              *)
(*                                                                         *)
(* Line numbers refer to src/unnamed/part_000, the current variant of the  *)
(* controller; src/src/extension.ts is the older variant of the same       *)
(* class.                                                                  *)
(*                                                                         *)
(* A handler is an async function: it runs without interruption up to an   *)
(* await on real I/O (a file read, an HTTP call, applyEdit, a              *)
(* configuration update, a notification prompt) and is resumed by a later  *)
(* step.  Each synchronous segment is one action.                          *)
(***************************************************************************)
EXTENDS Integers, Sequences, FiniteSets, TLC

\* Bounds of the model.
MaxMsgs == 2       \* inbound messages handled in one behaviour of Spec
MaxTurns == 2      \* user turns in one behaviour of SpecTurns
MaxCalls == 2      \* user turns in one behaviour of SpecCalls
MaxCommands == 2   \* inbound messages in one behaviour of SpecCommands
MaxPrompts == 2    \* inbound messages in one behaviour of SpecPrompts
MaxBubbles == 2    \* inbound messages in one behaviour of SpecBubbles
MaxEdits == 4      \* inbound messages in one behaviour of SpecEdits
MaxClicks == 3     \* inbound messages in one behaviour of SpecButtons, one a click
MaxKeep == 4       \* payloads the logs retain in SpecSingleTurn
MaxSide == 3       \* inbound messages in one behaviour of SpecSide

VARIABLES
  view,            \* _view is set (line 61, 75)
  panel,           \* _panel is set (line 62, 213, 251)
  messageHistory,  \* _messageHistory (line 63)
  viewPosted,      \* the latest history payloads posted to the side panel
  panelPosted,     \* the same for the current detachable panel
  keep,            \* how many payloads the two logs retain (fixed by Init)
  activeProvider,  \* configuration value loja.activeProvider
  turns,           \* the invocations of _handleUserMessage, in order of receipt
  tasks,           \* other suspended handlers, each waiting on one await
  undoHandlers,    \* undo listeners registered on the side panel (line 2671)
  files,           \* the files of the disk, by absolute path
  document,        \* the text of the active editor's document
  nMsgs            \* inbound messages handled so far

vars == <<view, panel, messageHistory, viewPosted, panelPosted, keep,
          activeProvider, turns, tasks, undoHandlers, files, document, nMsgs>>

-----------------------------------------------------------------------------
\* Text is a sequence of tokens (strings); concatenation of text is \o.

Surfaces == {"view", "panel"}
Providers == {"gpt", "claude", "grok", "gemini"}

\* An entry of _messageHistory.  `turn` is the index in `turns` of the
\* _handleUserMessage invocation that pushed it, 0 for every other handler.
Msg(role, content, turn) == [role |-> role, content |-> content, turn |-> turn]

\* The filter of lines 378-380 and 385-387 with the wrong role.
RemoveLoadingWrongRole(h) == SelectSeq(h, LAMBDA m : m.role # "user")

\* A filter that drops one loading entry, the oldest, and keeps the others.
RemoveFirstLoading(h) ==
  LET at == {i \in DOMAIN h : h[i].role = "loading"}
  IN IF at = {} THEN h
     ELSE LET first == CHOOSE i \in at : \A j \in at : i <= j
          IN SubSeq(h, 1, first - 1) \o SubSeq(h, first + 1, Len(h))

\* A filter that drops the error entries with the loading entries.
RemoveLoadingAndErrors(h) ==
  SelectSeq(h, LAMBDA m : m.role \notin {"loading", "error"})

\* this._messageHistory.filter((msg) => msg.role !== 'loading')
RemoveLoading(h) == SelectSeq(h, LAMBDA m : m.role # "loading")

\* this._messageHistory.push(entry); skipped once a statement has thrown.
Push(st, e) == IF st.threw THEN st ELSE [st EXCEPT !.h = Append(@, e)]

\* The assignment of the filtered history left out.
FilterSkipped(st) == st

\* this._messageHistory = this._messageHistory.filter(...)
Filter(st) == IF st.threw THEN st ELSE [st EXCEPT !.h = RemoveLoading(@)]

\* webview.postMessage({type: 'history', history}) as the surface logs it.
Posted(log, h) ==
  LET all == Append(log, h)
  IN IF Len(all) > keep THEN SubSeq(all, Len(all) - keep + 1, Len(all)) ELSE all

\* A post that dereferences this._view without the guard of line 141.
PostMessageHistoryUnguarded(st) ==
  IF st.threw THEN st
  ELSE IF st.view THEN [st EXCEPT !.vp = Posted(@, st.h)]
       ELSE [st EXCEPT !.threw = TRUE]

\* _postMessageHistory: {type: 'history', history} to the side panel, if set.
PostMessageHistory(st) ==
  IF st.threw THEN st
  ELSE IF st.view THEN [st EXCEPT !.vp = Posted(@, st.h)]
       ELSE st

\* _postMessageHistoryToPanel: the same to the detachable panel, if set.
PostMessageHistoryToPanel(st) ==
  IF st.threw THEN st
  ELSE IF st.panel THEN [st EXCEPT !.pp = Posted(@, st.h)]
       ELSE st

\* The entry of a catch block: the exception is caught.
Caught(st) == [st EXCEPT !.threw = FALSE]


-----------------------------------------------------------------------------
\* The controller state as one value, and the state after a handler segment.

Now == [view |-> view, panel |-> panel,
        messageHistory |-> messageHistory, viewPosted |-> viewPosted,
        panelPosted |-> panelPosted, activeProvider |-> activeProvider,
        turns |-> turns, tasks |-> tasks, undoHandlers |-> undoHandlers,
        files |-> files, document |-> document]

\* The history and the posts of a finished segment, written back.  The
\* handlers never assign _view or _panel.
Commit(ns, st) == [ns EXCEPT !.messageHistory = st.h, !.viewPosted = st.vp,
                             !.panelPosted = st.pp]

Becomes(ns) ==
  /\ messageHistory' = ns.messageHistory
  /\ viewPosted' = ns.viewPosted
  /\ panelPosted' = ns.panelPosted
  /\ activeProvider' = ns.activeProvider
  /\ turns' = ns.turns
  /\ tasks' = ns.tasks
  /\ undoHandlers' = ns.undoHandlers
  /\ files' = ns.files
  /\ document' = ns.document

Task(kind, arg) == [kind |-> kind, arg |-> arg]

RemoveAt(s, i) == SubSeq(s, 1, i - 1) \o SubSeq(s, i + 1, Len(s))

-----------------------------------------------------------------------------
\* Reference resolution of _handleUserMessage (lines 268-359).

Null == [type |-> "null"]

Includes(text, tok) == \E i \in 1..Len(text) : text[i] = tok

IndexOf(text, tok) == CHOOSE i \in 1..Len(text) :
                        text[i] = tok /\ \A j \in 1..(i - 1) : text[j] # tok

\* String.prototype.replace with a string pattern: the first occurrence only.
Replace(text, tok, by) ==
  IF Includes(text, tok)
  THEN [text EXCEPT ![IndexOf(text, tok)] = by]
  ELSE text

\* `**${icon} ${name}**`
Label(item) == "**" \o item.icon \o " " \o item.name \o "**"

NoSelectionNotice ==
  "**No selection found** - Please select some text first, or use the \"Add Selection to Chat\" command from the right-click menu."

\* Lines 270-311: the bracket markers, resolved against the editor state
\* `env` (the results of _getCurrentSelection, _getCurrentFile and
\* _getWorkspaceInfo), in the order selection, file, workspace.
ResolveMarkers(text, env) ==
  LET r0 == [full |-> text, refs |-> <<>>]
      r1 == IF Includes(r0.full, "[selection]")
            THEN IF env.selection # Null
                 THEN [full |-> Replace(r0.full, "[selection]", Label(env.selection)),
                       refs |-> Append(r0.refs, env.selection)]
                 ELSE [r0 EXCEPT !.full = Replace(@, "[selection]", NoSelectionNotice)]
            ELSE r0
      r2 == IF Includes(r1.full, "[file]") /\ env.file # Null
            THEN [full |-> Replace(r1.full, "[file]", Label(env.file)),
                  refs |-> Append(r1.refs, env.file)]
            ELSE r1
      r3 == IF Includes(r2.full, "[workspace]") /\ env.workspace # Null
            THEN [full |-> Replace(r2.full, "[workspace]", Label(env.workspace)),
                  refs |-> Append(r2.refs, env.workspace)]
            ELSE r2
  IN r3

\* A failed read leaves an item without content.
RECURSIVE ResolveBubblesKeepFailed(_, _, _)
ResolveBubblesKeepFailed(items, reads, refs) ==
  IF items = <<>> THEN refs
  ELSE LET item == Head(items)
           next == IF item.type = "file" /\ item.path # <<>>
                   THEN Append(refs, IF Head(reads) # Null THEN Head(reads)
                                     ELSE [icon |-> item.icon, name |-> item.name,
                                           content |-> <<>>])
                   ELSE IF item.type = "selection"
                        THEN Append(refs, [icon |-> item.icon, name |-> item.name,
                                           content |-> item.content])
                        ELSE refs
       IN ResolveBubblesKeepFailed(Tail(items), Tail(reads), next)

\* Lines 313-331: the context bubbles.  `reads` gives, per bubble, the result
\* of _handleAddFileToContext for a file bubble (a context item, or Null
\* when the read failed).
RECURSIVE ResolveBubbles(_, _, _)
ResolveBubbles(items, reads, refs) ==
  IF items = <<>> THEN refs
  ELSE LET item == Head(items)
           next == IF item.type = "file" /\ item.path # <<>>
                   THEN IF Head(reads) # Null THEN Append(refs, Head(reads)) ELSE refs
                   ELSE IF item.type = "selection"
                        THEN Append(refs, [icon |-> item.icon, name |-> item.name,
                                           content |-> item.content])
                        ELSE refs
       IN ResolveBubbles(Tail(items), Tail(reads), next)

\* Lines 334-349: the inline references.
RECURSIVE ResolveInline(_, _)
ResolveInline(inl, r) ==
  IF inl = <<>> THEN r
  ELSE LET d == Head(inl).data
           item == [icon |-> d.icon, name |-> d.name, content |-> d.content]
       IN ResolveInline(Tail(inl),
            [full |-> Replace(r.full, Head(inl).reference, Label(item)),
             refs |-> Append(r.refs, item)])

\* Line 355: "**icon name:**", a fenced block of the content; joined by "\n\n".
\* The fence (three backticks) is written '''.
RECURSIVE ContextContent(_)
ContextContent(refs) ==
  IF refs = <<>> THEN <<>>
  ELSE <<"**" \o Head(refs).icon \o " " \o Head(refs).name \o ":**\n'''\n">>
       \o Head(refs).content \o <<"\n'''">>
       \o (IF Len(refs) > 1 THEN <<"\n\n">> ELSE <<>>)
       \o ContextContent(Tail(refs))

\* The question taken from the text with its labels substituted.
FinalMessageSubstituted(text, r) ==
  IF Len(r.refs) > 0
  THEN <<"**Context:**\n">> \o ContextContent(r.refs)
       \o <<"\n\n**Question:**\n">> \o r.full
  ELSE r.full

\* Lines 351-359: the final message.
FinalMessage(text, r) ==
  IF Len(r.refs) > 0
  THEN <<"**Context:**\n">> \o ContextContent(r.refs)
       \o <<"\n\n**Question:**\n">> \o text
  ELSE r.full

NeedsRead(items) == \E i \in 1..Len(items) :
                      items[i].type = "file" /\ items[i].path # <<>>

-----------------------------------------------------------------------------
\* The editor host as the handlers read it.  A state of the editor is
\* [editor: an editor is active, selEmpty: its selection is empty,
\*  ws: a workspace folder is open, fsOk: the workspace directory is readable].

\* _getCurrentSelection (lines 1937-1957)
GetCurrentSelection(env) ==
  IF ~env.editor \/ env.selEmpty THEN Null
  ELSE [type |-> "selection", name |-> "demo.ts:3-3", content |-> <<"x=1">>,
        icon |-> "(memo)"]

\* _getCurrentFile (lines 1959-1977)
GetCurrentFile(env) ==
  IF ~env.editor THEN Null
  ELSE [type |-> "file", name |-> "demo.ts", content |-> <<"let x=1">>,
        icon |-> "(page)"]

\* _getWorkspaceInfo (lines 1979-2038)
GetWorkspaceInfo(env) ==
  IF ~env.ws \/ ~env.fsOk THEN Null
  ELSE [type |-> "workspace", name |-> "ws", content |-> <<"**Workspace: ws**">>,
        icon |-> "(folder)"]

References(env) == [selection |-> GetCurrentSelection(env),
                    file |-> GetCurrentFile(env),
                    workspace |-> GetWorkspaceInfo(env)]

-----------------------------------------------------------------------------
\* Dispatch: _callAI (lines 1808-1850), called with includeContext = false.

StartsWith(text, p) == Len(text) > 0 /\ text[1] = p

Whitespace == {" ", "\n"}

\* userText.match(/^\/edit\s+([^\s]+)\s+([\s\S]*)$/) on a text that starts
\* with "/edit ": a path follows the whitespace, and whitespace the path.
EditMatch(text) ==
  \E i \in 2..Len(text) :
    /\ text[i] \notin Whitespace
    /\ \A j \in 2..(i - 1) : text[j] \in Whitespace
    /\ \E k \in (i + 1)..Len(text) : text[k] \in Whitespace

\* A read of a configuration key that setProvider never writes yields the
\* default.
DefaultProvider == "gpt"

\* config.get('loja.activeProvider', 'gpt') at line 1838.
ConfiguredProvider == activeProvider

\* Which branch of _callAI the text takes.
Route(userText) ==
  IF StartsWith(userText, "/read ") THEN "read"
  ELSE IF StartsWith(userText, "/edit ")
       THEN IF EditMatch(userText) THEN "edit" ELSE "usage"
       ELSE IF ConfiguredProvider \in Providers THEN ConfiguredProvider
            ELSE "unknown"

ApiName(p) == CASE p = "gpt" -> "OpenAI" [] p = "claude" -> "Claude"
                [] p = "grok" -> "Grok" [] p = "gemini" -> "Gemini"

\* The role names of a provider for the entries of the history it is sent
\* (lines 2055, 2134, 2176).
ProviderRole(p, role) ==
  IF role = "user" THEN "user"
  ELSE IF p = "gemini" THEN "model" ELSE "assistant"

\* .filter((m) => m.role === 'user' || m.role === 'ai').map(...)
MappedHistory(p, h) ==
  LET kept == SelectSeq(h, LAMBDA m : m.role \in {"user", "ai"})
  IN [i \in 1..Len(kept) |->
        [role |-> ProviderRole(p, kept[i].role), content |-> kept[i].content]]

\* The messages of the request body of provider p, built from the history
\* of the moment of the call and the prompt (lines 2051-2059, 2100,
\* 2130-2138, 2172-2180).  The Claude request holds the prompt alone.
BuildRequest(p, h, userText) ==
  IF p = "claude"
  THEN <<[role |-> "user", content |-> userText]>>
  ELSE MappedHistory(p, h) \o <<[role |-> "user", content |-> userText]>>

\* The path of the text in the success envelope of a provider
\* (lines 2079, 2117, 2158, 2202).
TextPath(p) ==
  CASE p \in {"gpt", "grok"} -> <<"choices", "0", "message", "content">>
    [] p = "claude" -> <<"content", "0", "text">>
    [] p = "gemini" -> <<"candidates", "0", "content", "parts", "0", "text">>

\* String.prototype.trim on a text.
RECURSIVE TrimStart(_)
TrimStart(text) ==
  IF text # <<>> /\ Head(text) \in Whitespace THEN TrimStart(Tail(text)) ELSE text

RECURSIVE TrimEnd(_)
TrimEnd(text) ==
  IF text # <<>> /\ text[Len(text)] \in Whitespace
  THEN TrimEnd(SubSeq(text, 1, Len(text) - 1)) ELSE text

Trim(text) == TrimEnd(TrimStart(text))

\* A parsed success body: `present` levels of the text path exist (the
\* next one is undefined or null), and `text` is the value at its end.
Envelope(present, text) == [present |-> present, text |-> text]

\* The parse without the fallback: an absent field yields undefined.
ParseTextNoFallback(p, data) ==
  IF data.present = Len(TextPath(p)) THEN Trim(data.text) ELSE <<"undefined">>

\* data.<path with ?.>?.trim() || '[No response]'
ParseText(p, data) ==
  IF data.present = Len(TextPath(p)) /\ Trim(data.text) # <<>>
  THEN Trim(data.text)
  ELSE <<"[No response]">>

\* What fetch can resolve with: a success with a parsed body, or a
\* non-success with a body text.
Success(data) == [ok |-> TRUE, data |-> data, body |-> <<>>]

Failure(body) == [ok |-> FALSE, data |-> Envelope(0, <<>>), body |-> body]

HttpResponses(p) ==
  {Success(Envelope(Len(TextPath(p)), t)) :
     t \in {<<"answer">>, <<" ", "answer", "\n">>, <<" ">>}}
  \cup {Success(Envelope(n, <<>>)) : n \in 0..(Len(TextPath(p)) - 1)}
  \cup {Failure(<<"body">>)}

\* The responses of a provider that holds the key and answers in its
\* documented shape: the text, or a non-success.
UsualResponses(p) ==
  {Success(Envelope(Len(TextPath(p)), <<"answer">>)), Failure(<<"body">>)}

\* The values of an API key setting.
ApiKeys == {"", "sk-1"}

\* A call that goes on to fetch with an empty key.
ProviderCallNoKeyCheck(p, apiKey, resp) ==
  IF ~resp.ok
  THEN [ok |-> FALSE, text |-> <<ApiName(p) \o " API error: ">> \o resp.body,
        requests |-> 1]
  ELSE [ok |-> TRUE, text |-> ParseText(p, resp.data), requests |-> 1]

\* A call that sends the request once more after a non-success.
ProviderCallRetry(p, apiKey, resp) ==
  IF apiKey = ""
  THEN [ok |-> FALSE,
        text |-> <<"No " \o ApiName(p) \o " API key set. Please add it in the extension settings.">>,
        requests |-> 0]
  ELSE IF ~resp.ok
       THEN [ok |-> FALSE, text |-> <<ApiName(p) \o " API error: ">> \o resp.body,
             requests |-> 2]
       ELSE [ok |-> TRUE, text |-> ParseText(p, resp.data), requests |-> 1]

\* _callOpenAIGPT, _callClaudeStub, _callGrokStub, _callGeminiStub with the
\* API key of the provider and the response of fetch: how the promise
\* settles, and how many requests were made.
ProviderCall(p, apiKey, resp) ==
  IF apiKey = ""
  THEN [ok |-> FALSE,
        text |-> <<"No " \o ApiName(p) \o " API key set. Please add it in the extension settings.">>,
        requests |-> 0]
  ELSE IF ~resp.ok
       THEN [ok |-> FALSE, text |-> <<ApiName(p) \o " API error: ">> \o resp.body,
             requests |-> 1]
       ELSE [ok |-> TRUE, text |-> ParseText(p, resp.data), requests |-> 1]

-----------------------------------------------------------------------------
\* The commands /read and /edit: _handleReadFile (lines 1887-1911) and
\* _handleEditFile (lines 1914-1934).  A path is a sequence of characters,
\* written with the names of a path as single characters.

\* wsFolders[0].uri.fsPath
WorkspaceRoot == <<"/", "ws">>

\* The files of the disk when the extension starts, by absolute path.
\* All are shorter than the 4000 characters that /read displays in full.
InitialFiles ==
  (<<"/", "ws", "/", "notes.md">> :> <<"old">>)
  @@ (<<"/", "ws", "/", "a.ts">> :> <<"let a">>)
  @@ (<<"/", "ws", "2", "/", "x">> :> <<"other">>)
  @@ (<<"/", "outside.txt">> :> <<"secret">>)

Directories == {<<"/">>, <<"/", "ws">>, <<"/", "ws", "2">>}

\* The path split at its separators.
RECURSIVE SplitPath(_, _, _)
SplitPath(chars, cur, acc) ==
  IF chars = <<>> THEN Append(acc, cur)
  ELSE IF Head(chars) = "/"
       THEN SplitPath(Tail(chars), <<>>, Append(acc, cur))
       ELSE SplitPath(Tail(chars), Append(cur, Head(chars)), acc)

\* The segments normalised: empty and "." dropped, ".." leaves a directory.
RECURSIVE Walk(_, _)
Walk(segs, stack) ==
  IF segs = <<>> THEN stack
  ELSE LET s == Head(segs)
           next == IF s = <<>> \/ s = <<".">> THEN stack
                   ELSE IF s = <<"..">>
                        THEN SubSeq(stack, 1, Len(stack) - 1)
                        ELSE Append(stack, s)
       IN Walk(Tail(segs), next)

RECURSIVE JoinPath(_)
JoinPath(stack) ==
  IF stack = <<>> THEN <<>>
  ELSE <<"/">> \o Head(stack) \o JoinPath(Tail(stack))

\* path.resolve(root, filePath) for an absolute root.
Resolve(root, filePath) ==
  LET from == IF filePath # <<>> /\ Head(filePath) = "/"
              THEN filePath
              ELSE root \o <<"/">> \o filePath
      stack == Walk(SplitPath(from, <<>>, <<>>), <<>>)
  IN IF stack = <<>> THEN <<"/">> ELSE JoinPath(stack)

\* The containment test with the separator: the root or a path below it.
StartsWithRootDirectory(absPath, root) ==
  \/ absPath = root
  \/ /\ Len(absPath) > Len(root)
     /\ SubSeq(absPath, 1, Len(root) + 1) = root \o <<"/">>

\* absPath.startsWith(root) (lines 1895, 1922): a test on the characters.
StartsWithRoot(absPath, root) ==
  Len(absPath) >= Len(root) /\ SubSeq(absPath, 1, Len(root)) = root

\* _handleReadFile: the text returned and the files read, on disk `disk`
\* with a workspace folder open or not.
HandleReadFile(disk, ws, filePath) ==
  LET absPath == Resolve(WorkspaceRoot, filePath)
  IN IF ~ws THEN [text |-> <<"No workspace folder open.">>, read |-> {}]
     ELSE IF ~StartsWithRoot(absPath, WorkspaceRoot)
          THEN [text |-> <<"Error: Can only read files within the workspace.">>,
                read |-> {}]
          ELSE IF absPath \in DOMAIN disk
               THEN [text |-> <<"'''\n">> \o disk[absPath] \o <<"\n'''">>,
                     read |-> {absPath}]
               ELSE [text |-> <<"Error reading file: ",
                                IF absPath \in Directories THEN "EISDIR" ELSE "ENOENT">>,
                     read |-> {absPath}]

\* The disk after writeFile(path, content).
WriteFile(disk, absPath, content) ==
  [p \in DOMAIN disk \cup {absPath} |-> IF p = absPath THEN content ELSE disk[p]]

\* _handleEditFile: the text returned and the disk it leaves.
HandleEditFile(disk, ws, filePath, newContent) ==
  LET absPath == Resolve(WorkspaceRoot, filePath)
  IN IF ~ws THEN [text |-> <<"No workspace folder open.">>, disk |-> disk]
     ELSE IF ~StartsWithRoot(absPath, WorkspaceRoot)
          THEN [text |-> <<"Error: Can only edit files within the workspace.">>,
                disk |-> disk]
          ELSE IF absPath \in Directories
               THEN [text |-> <<"Error editing file: ", "EISDIR">>, disk |-> disk]
               ELSE [text |-> <<"File ">> \o filePath \o <<" updated successfully.">>,
                     disk |-> WriteFile(disk, absPath, newContent)]

\* userText.replace('/read ', '').trim() (line 1813).
ReadPath(userText) == Trim(Tail(userText))

\* The first position from i on whose character is whitespace (in = TRUE)
\* or is not (in = FALSE); Len + 1 when there is none.
RECURSIVE Scan(_, _, _)
Scan(text, i, in) ==
  IF i > Len(text) \/ ((text[i] \in Whitespace) = in) THEN i
  ELSE Scan(text, i + 1, in)

\* The content taken from the end of the path on, its whitespace kept.
EditGroupsKeepSpace(text) ==
  LET p0 == Scan(text, 2, FALSE)
      p1 == Scan(text, p0, TRUE)
  IN [path |-> SubSeq(text, p0, p1 - 1), content |-> SubSeq(text, p1, Len(text))]

\* The groups of /^\/edit\s+([^\s]+)\s+([\s\S]*)$/ (line 1819) on a text
\* that starts with "/edit ".
EditGroups(text) ==
  LET p0 == Scan(text, 2, FALSE)
      p1 == Scan(text, p0, TRUE)
      c0 == Scan(text, p1, FALSE)
  IN [path |-> SubSeq(text, p0, p1 - 1), content |-> SubSeq(text, c0, Len(text))]

\* What the promise of _callAI can settle with: [ok |-> TRUE, text] when it
\* resolves with text, [ok |-> FALSE, text] when it rejects with an Error
\* whose message is text; `requests` counts the provider requests made.
\* A provider call settles by the API key among `keys` and the response
\* among `resps`.
CallResultsWith(turn, keys, resps) ==
  CASE turn.route = "read" ->
         LET out == HandleReadFile(files, turn.ws, ReadPath(turn.full))
         IN {[ok |-> TRUE, text |-> out.text, requests |-> 0, read |-> out.read]}
    [] turn.route = "edit" ->
         LET g == EditGroups(turn.full)
             out == HandleEditFile(files, turn.ws, g.path, g.content)
         IN {[ok |-> TRUE, text |-> out.text, requests |-> 0, disk |-> out.disk]}
    [] turn.route = "usage" ->
         {[ok |-> TRUE, text |-> <<"Usage: /edit <file> <new content>">>, requests |-> 0]}
    [] turn.route = "unknown" ->
         {[ok |-> FALSE, text |-> <<"Unknown provider: ", turn.provider>>, requests |-> 0]}
    [] OTHER ->
         {ProviderCall(turn.route, apiKey, resp) :
            apiKey \in keys, resp \in resps \cap HttpResponses(turn.route)}

AllResponses == UNION {HttpResponses(p) : p \in Providers}

CallResults(turn) == CallResultsWith(turn, ApiKeys, AllResponses)

\* The results with the key set and a response of the documented shape.
UsualResults(turn) ==
  CallResultsWith(turn, ApiKeys \ {""}, UNION {UsualResponses(p) : p \in Providers})

-----------------------------------------------------------------------------
\* The user turn: _handleUserMessage (lines 268-395).

\* The running state of one synchronous segment of a handler: the history,
\* what has been posted to each surface, and whether a statement has thrown.
SegmentOf(ns) == [view |-> ns.view, panel |-> ns.panel, h |-> ns.messageHistory,
                  vp |-> ns.viewPosted, pp |-> ns.panelPosted, threw |-> FALSE]

\* The two entries pushed together and broadcast once.
StartSegmentOnePost(st, t, full) ==
  LET s1 == Push(st, Msg("user", full, t))
      s2 == Push(s1, Msg("loading", <<"Thinking...">>, t))
  IN PostMessageHistoryToPanel(PostMessageHistory(s2))

\* Lines 361-372: the user entry and the loading entry, each broadcast.
StartSegment(st, t, full) ==
  LET s1 == Push(st, Msg("user", full, t))
      s2 == PostMessageHistoryToPanel(PostMessageHistory(s1))
      s3 == Push(s2, Msg("loading", <<"Thinking...">>, t))
  IN PostMessageHistoryToPanel(PostMessageHistory(s3))

\* Lines 351-376 for turn t of ns, once its context is resolved: the final
\* message, the two entries, and the call of _callAI, which reads the
\* provider before it first suspends.
BeginTurn(ns, t, reads) ==
  LET turn == ns.turns[t]
      refs == ResolveBubbles(turn.msg.contextItems, reads, turn.r.refs)
      r == ResolveInline(turn.msg.inlineReferences,
                         [full |-> turn.r.full, refs |-> refs])
      full == FinalMessage(turn.msg.text, r)
      st == StartSegment(SegmentOf(ns), t, full)
  IN Commit([ns EXCEPT !.turns[t] =
               [turn EXCEPT !.pc = IF st.threw THEN "rejected" ELSE "awaiting",
                            !.reads = reads,
                            !.refs = r.refs,
                            !.full = full,
                            !.provider = ConfiguredProvider,
                            !.route = Route(full),
                            !.request = IF Route(full) \in Providers
                                        THEN BuildRequest(Route(full), st.h, full)
                                        ELSE <<>>]], st)

\* The catch block dropped: a failed call leaves the history as it is.
SettleSegmentNoCatch(st, t, res) ==
  IF res.ok
  THEN PostMessageHistoryToPanel(PostMessageHistory(
         Push(Filter(st), Msg("ai", res.text, t))))
  ELSE st

\* A settle that files the terminal entry in the order of sending: before
\* the entries of the turns that came after turn t.
SettleSegmentInSendOrder(st, t, res) ==
  LET e == IF res.ok THEN Msg("ai", res.text, t)
           ELSE Msg("error", <<"Error: ">> \o res.text, t)
      h == RemoveLoading(st.h)
      later == {i \in DOMAIN h : h[i].turn > t}
      at == IF later = {} THEN Len(h) + 1
            ELSE CHOOSE i \in later : \A j \in later : i <= j
  IN PostMessageHistoryToPanel(PostMessageHistory(
       [st EXCEPT !.h = SubSeq(h, 1, at - 1) \o <<e>> \o SubSeq(h, at, Len(h))]))

\* Lines 375-394: the try block after the await and the catch block.
SettleSegment(st, t, res) ==
  LET onError(s, text) ==
        PostMessageHistoryToPanel(PostMessageHistory(
          Push(Filter(s), Msg("error", <<"Error: ">> \o text, t))))
  IN IF res.ok
     THEN LET try == PostMessageHistoryToPanel(PostMessageHistory(
                       Push(Filter(st), Msg("ai", res.text, t))))
          IN IF try.threw THEN onError(Caught(try), <<"TypeError">>) ELSE try
     ELSE onError(st, res.text)

\* message.text.trim().toLowerCase() on the texts of the model.
TrimLower(str) == IF str \in {"undo", " Undo "} THEN "undo" ELSE str

RECURSIVE Join(_)
Join(text) == IF text = <<>> THEN "" ELSE Head(text) \o Join(Tail(text))

\* The condition of undoHandler (lines 2656-2659) on a userMessage.
IsUndo(m) == TrimLower(Join(m.text)) = "undo"

\* The listeners of applyInline taken off the webview after the edit.
UndoListenersRemoved(ns, m) == ns

\* The listeners that applyInline has registered on the side panel's webview
\* (line 2671), each called with the message: an undo utterance starts the
\* revert of every one of them, which suspends at applyEdit (line 2662).
UndoListeners(ns, m) ==
  IF m.type = "userMessage" /\ IsUndo(m)
  THEN [ns EXCEPT !.tasks = @ \o [i \in 1..Len(ns.undoHandlers) |->
                                    Task("undoEdit", ns.undoHandlers[i])]]
  ELSE ns

\* _handleUserMessage up to its first suspension.
HandleUserMessage(ns, m, env) ==
  LET t == Len(ns.turns) + 1
      turn == [pc |-> "resolving", msg |-> m,
               r |-> ResolveMarkers(m.text, References(env)),
               ws |-> env.ws, reads |-> <<>>, refs |-> <<>>, full |-> <<>>,
               provider |-> "",
               route |-> "",
               request |-> <<>>, res |-> Null]
      n1 == [ns EXCEPT !.turns = Append(@, turn)]
  IN IF NeedsRead(m.contextItems) THEN n1
     ELSE BeginTurn(n1, t, [i \in 1..Len(m.contextItems) |-> Null])

-----------------------------------------------------------------------------
\* The handlers without a provider round trip.

\* _handleSendCurrentFile (lines 2274-2313)
HandleSendCurrentFile(ns, env) ==
  LET entry == IF ~env.editor
               THEN Msg("system", <<"No file is currently open.">>, 0)
               ELSE Msg("user", <<"**File Context:**", "demo.ts", "let x=1">>, 0)
  IN Commit(ns, PostMessageHistory(Push(SegmentOf(ns), entry)))

\* A handler that returns without a notice when no text is selected.
HandleSendSelectionSilent(ns, env) ==
  IF env.editor /\ env.selEmpty THEN ns
  ELSE Commit(ns, PostMessageHistory(Push(SegmentOf(ns),
         IF ~env.editor
         THEN Msg("system", <<"No file is currently open.">>, 0)
         ELSE Msg("user", <<"**Selection Context:**", "demo.ts", "x=1">>, 0))))

\* _handleSendSelection (lines 2316-2369)
HandleSendSelection(ns, env) ==
  LET entry == IF ~env.editor
               THEN Msg("system", <<"No file is currently open.">>, 0)
               ELSE IF env.selEmpty
                    THEN Msg("system", <<"No text is selected.">>, 0)
                    ELSE Msg("user", <<"**Selection Context:**", "demo.ts", "x=1">>, 0)
  IN Commit(ns, PostMessageHistory(Push(SegmentOf(ns), entry)))

\* _handleSendWorkspaceInfo (lines 2372-2451)
HandleSendWorkspaceInfo(ns, env) ==
  LET entry == IF ~env.ws
               THEN Msg("system", <<"No workspace folder is open.">>, 0)
               ELSE IF env.fsOk
                    THEN Msg("user", <<"**Workspace Information:**", "ws">>, 0)
                    ELSE Msg("system", <<"Could not read workspace structure: ", "error">>, 0)
  IN Commit(ns, PostMessageHistory(Push(SegmentOf(ns), entry)))

\* The range the editor has selected when its selection is not empty.
Selection == [start |-> 1, end |-> 2]

\* A range of the document in offsets, as the editor validates it: both
\* ends are brought inside the text.
ValidateRange(doc, range) ==
  LET s == IF range.start > Len(doc) THEN Len(doc) ELSE range.start
      e == IF range.end > Len(doc) THEN Len(doc) ELSE range.end
  IN [start |-> s, end |-> IF e < s THEN s ELSE e]

\* document.getText(range)
GetText(doc, range) ==
  LET r == ValidateRange(doc, range) IN SubSeq(doc, r.start + 1, r.end)

\* WorkspaceEdit.replace(uri, range, text) once applyEdit has applied it.
ReplaceRange(doc, range, text) ==
  LET r == ValidateRange(doc, range)
  IN SubSeq(doc, 1, r.start) \o text \o SubSeq(doc, r.end + 1, Len(doc))

\* The range an undo listener replaces (line 2661): the range captured
\* before the edit.
UndoRange(edit) == edit.range

\* editor.selection of the active editor.
SelectionOf(doc, env) ==
  IF env.selEmpty THEN [start |-> 0, end |-> 0]
  ELSE ValidateRange(doc, Selection)

\* new Range(positionAt(0), positionAt(getText().length)) (lines 2635-2638)
WholeFile(doc) == [start |-> 0, end |-> Len(doc)]

\* _handleApplyInline up to its await (lines 2619-2646): without an editor a
\* notice; otherwise the range and its text are captured, the edit is sent to
\* the editor and the handler suspends.
HandleApplyInline(ns, m, env) ==
  IF ~env.editor
  THEN Commit(ns, PostMessageHistory(
         Push(SegmentOf(ns), Msg("system", <<"No file is currently open.">>, 0))))
  ELSE LET sel == SelectionOf(ns.document, env)
           range == IF m.target = "selection" /\ sel.start # sel.end
                    THEN sel ELSE WholeFile(ns.document)
       IN [ns EXCEPT !.tasks = Append(@, Task("applyEdit",
            [target |-> m.target, codeBlock |-> m.codeBlock, range |-> range,
             oldText |-> GetText(ns.document, range)]))]

\* _handleApplyInline after the await (lines 2646-2672): the document is
\* edited, then the notice, the post to the side panel, and one more undo
\* listener on its webview.
ApplyInlineDone(ns, edit) ==
  LET notice == Msg("system",
        <<"Applied suggestion to ",
          IF edit.target = "selection" THEN "selection" ELSE "entire file",
          ". [Undo]">>, 0)
      n1 == Commit([ns EXCEPT !.document =
                      ReplaceRange(@, edit.range, edit.codeBlock)],
                   PostMessageHistory(Push(SegmentOf(ns), notice)))
  IN IF ns.view THEN [n1 EXCEPT !.undoHandlers = Append(@, edit)] ELSE n1

\* undoHandler after its await (lines 2659-2667): the captured range is
\* given the captured text back.  The call onDidReceiveMessage(undefined) of
\* line 2666 subscribes once more and removes nothing: the listeners stay
\* registered.
UndoDone(ns, edit) ==
  Commit([ns EXCEPT !.document = ReplaceRange(@, UndoRange(edit), edit.oldText)],
         PostMessageHistory(
           Push(SegmentOf(ns), Msg("system", <<"Undo applied.">>, 0))))

\* _showPreviewAndApply, choice Apply, after _handleEditFile (lines 2218-2221).
PreviewApplied(ns, result) ==
  Commit([ns EXCEPT !.files = result.disk],
         PostMessageHistory(Push(SegmentOf(ns), Msg("system", result.text, 0))))

\* _handleEditFile as the preview flow calls it (line 2219).
PreviewEdit(disk, arg) == HandleEditFile(disk, arg.ws, arg.filePath, arg.newContent)

-----------------------------------------------------------------------------
\* The two listeners.

\* The listener of the side panel's webview (lines 92-132).
ViewListener(ns, m, env) ==
  CASE m.type = "setProvider" ->
         [ns EXCEPT !.tasks = Append(@, Task("configUpdate", m.provider))]
    [] m.type = "userMessage" -> HandleUserMessage(ns, m, env)
    [] m.type = "previewEdit" ->
         [ns EXCEPT !.tasks = Append(@, Task("prompt",
            [filePath |-> m.filePath, newContent |-> m.newContent,
             ws |-> env.ws]))]
    [] m.type = "sendCurrentFile" -> HandleSendCurrentFile(ns, env)
    [] m.type = "sendSelection" -> HandleSendSelection(ns, env)
    [] m.type = "sendWorkspaceInfo" -> HandleSendWorkspaceInfo(ns, env)
    [] m.type = "requestHistory" -> Commit(ns, PostMessageHistory(SegmentOf(ns)))
    [] m.type = "requestFileSuggestions" ->
         IF env.ws THEN [ns EXCEPT !.tasks = Append(@, Task("findFiles", m.query))]
         ELSE ns
    [] m.type = "addFileToContext" ->
         [ns EXCEPT !.tasks = Append(@, Task("readFile", m.filePath))]
    [] m.type = "applyInline" -> HandleApplyInline(ns, m, env)
    [] OTHER -> ns

\* The listener of the detachable panel's webview (lines 230-248).
PanelListener(ns, m, env) ==
  CASE m.type = "userMessage" -> HandleUserMessage(ns, m, env)
    [] m.type = "setProvider" ->
         [ns EXCEPT !.tasks = Append(@, Task("configUpdate", m.provider))]
    [] m.type = "requestHistory" ->
         Commit(ns, PostMessageHistoryToPanel(SegmentOf(ns)))
    [] m.type = "requestFileSuggestions" ->
         IF env.ws THEN [ns EXCEPT !.tasks = Append(@, Task("findFiles", m.query))]
         ELSE ns
    [] m.type = "addFileToContext" ->
         [ns EXCEPT !.tasks = Append(@, Task("readFile", m.filePath))]
    [] OTHER -> ns

\* Every listener of the webview of surface s called with m, in the order
\* of registration: the listener of the surface, then the undo listeners,
\* which are registered on the side panel only.
OnDidReceiveMessage(ns, s, m, env) ==
  IF s = "view" THEN UndoListeners(ViewListener(ns, m, env), m)
  ELSE PanelListener(ns, m, env)

-----------------------------------------------------------------------------
\* The inbound messages and editor states the model draws from.

\* The text of the document the editor shows.
InitialDocument == <<"let ", "x=1", ";">>

Env(editor, selEmpty, ws, fsOk) ==
  [editor |-> editor, selEmpty |-> selEmpty, ws |-> ws, fsOk |-> fsOk]

FileBubble == [type |-> "file", path |-> <<"/", "ws", "/", "a.ts">>, name |-> "a.ts",
               icon |-> "(page)"]

\* filePath.split(/[\\/]/).pop() || 'unknown'
FileName(filePath) ==
  LET segs == SplitPath(filePath, <<>>, <<>>)
  IN IF segs[Len(segs)] = <<>> THEN "unknown" ELSE Join(segs[Len(segs)])

\* The item built from the content the file had when the extension started.
HandleAddFileToContextAtStart(disk, filePath) ==
  {Null} \cup (IF filePath \in DOMAIN InitialFiles
               THEN {[icon |-> "(page)", name |-> FileName(filePath),
                      content |-> InitialFiles[filePath]]}
               ELSE {})

\* What _handleAddFileToContext (lines 445-466) can return on disk `disk`:
\* the item with the content of the file, or null when the read fails, as
\* it does for a missing file and can for any other.  The files of the
\* model are shorter than the 2000 characters kept of the content.
HandleAddFileToContext(disk, filePath) ==
  {Null} \cup (IF filePath \in DOMAIN disk
               THEN {[icon |-> "(page)", name |-> FileName(filePath),
                      content |-> disk[filePath]]}
               ELSE {})

\* The results of the reads of the bubbles `items`, one per bubble (Null
\* for a bubble that is not read).
BubbleReads(disk, items) ==
  LET outcomes(i) == IF items[i].type = "file" /\ items[i].path # <<>>
                     THEN HandleAddFileToContext(disk, items[i].path)
                     ELSE {Null}
  IN {reads \in [1..Len(items) -> UNION {outcomes(i) : i \in 1..Len(items)}] :
        \A i \in 1..Len(items) : reads[i] \in outcomes(i)}

UserMessage(text, items) ==
  [type |-> "userMessage", text |-> text, contextItems |-> items,
   inlineReferences |-> <<>>]

UserMessages == {UserMessage(<<"hi">>, <<>>), UserMessage(<<"undo">>, <<>>),
                 UserMessage(<<"hi">>, <<FileBubble>>)}

\* "llama" stands for a provider name that _callAI does not know.
ProviderChoices == {"claude", "llama"}

OtherMessages ==
  {[type |-> "setProvider", provider |-> p] : p \in ProviderChoices}
  \cup {[type |-> "applyInline", target |-> t, codeBlock |-> <<"y=2">>] :
          t \in {"selection", "file"}}
  \cup {[type |-> "previewEdit", filePath |-> <<"notes.md">>,
         newContent |-> <<"New", " ", "content">>],
        [type |-> "sendCurrentFile"], [type |-> "sendSelection"],
        [type |-> "sendWorkspaceInfo"], [type |-> "requestHistory"],
        [type |-> "requestFileSuggestions", query |-> "a"],
        [type |-> "addFileToContext", filePath |-> "/ws/a.ts"],
        [type |-> "addCurrentFileContext"]}

InboundMessages == UserMessages \cup OtherMessages

Markers == {"[selection]", "[file]", "[workspace]"}

\* The editor states that make a difference to the handler of m.
EnvsFor(m) ==
  CASE m.type \in {"sendCurrentFile"} -> {Env(e, TRUE, TRUE, TRUE) : e \in BOOLEAN}
    [] m.type \in {"sendSelection", "applyInline"} ->
         {Env(TRUE, se, TRUE, TRUE) : se \in BOOLEAN} \cup {Env(FALSE, TRUE, TRUE, TRUE)}
    [] m.type = "sendWorkspaceInfo" ->
         {Env(TRUE, TRUE, TRUE, ok) : ok \in BOOLEAN} \cup {Env(TRUE, TRUE, FALSE, TRUE)}
    [] m.type = "requestFileSuggestions" -> {Env(TRUE, TRUE, w, TRUE) : w \in BOOLEAN}
    [] m.type = "userMessage" ->
         {Env(TRUE, FALSE, TRUE, TRUE)}
         \cup (IF \E mk \in Markers : Includes(m.text, mk)
               THEN {Env(FALSE, TRUE, TRUE, TRUE), Env(TRUE, TRUE, TRUE, TRUE)}
               ELSE {})
         \cup (IF Includes(m.text, "[workspace]")
               THEN {Env(FALSE, TRUE, TRUE, FALSE)} ELSE {})
         \cup (IF Route(m.text) \in {"read", "edit"}
               THEN {Env(TRUE, FALSE, FALSE, TRUE)} ELSE {})
    [] OTHER -> {Env(TRUE, FALSE, TRUE, TRUE)}

-----------------------------------------------------------------------------
\* The state after construction (lines 61-68): no surface, an empty history,
\* the default provider.

Init ==
  /\ view = FALSE
  /\ panel = FALSE
  /\ messageHistory = <<>>
  /\ viewPosted = <<>>
  /\ panelPosted = <<>>
  /\ keep = 1
  /\ activeProvider = "gpt"
  /\ turns = <<>>
  /\ tasks = <<>>
  /\ undoHandlers = <<>>
  /\ files = InitialFiles
  /\ document = InitialDocument
  /\ nMsgs = 0

Live(s) == IF s = "view" THEN view ELSE panel

\* resolveWebviewView (lines 70-133): the side panel is created.
ResolveWebviewView ==
  /\ ~view
  /\ view' = TRUE
  /\ UNCHANGED <<panel, messageHistory, viewPosted, panelPosted, keep,
                 activeProvider, turns, tasks, undoHandlers, files, document, nMsgs>>

\* openChatPanel (lines 207-256): an open panel is revealed; otherwise a new
\* one is created and the history is posted to it twice (lines 227, 255).
OpenChatPanel ==
  /\ ~panel
  /\ panel' = TRUE
  /\ panelPosted' = Posted(Posted(<<>>, messageHistory), messageHistory)
  /\ UNCHANGED <<view, messageHistory, viewPosted, keep, activeProvider, turns,
                 tasks, undoHandlers, files, document, nMsgs>>

\* onDidDispose of the panel (lines 250-252).
PanelDisposed ==
  /\ panel
  /\ panel' = FALSE
  /\ panelPosted' = <<>>
  /\ UNCHANGED <<view, messageHistory, viewPosted, keep, activeProvider, turns,
                 tasks, undoHandlers, files, document, nMsgs>>

\* The message types each listener has a branch for.
Handles(s) ==
  IF s = "view"
  THEN {"setProvider", "userMessage", "previewEdit", "sendCurrentFile",
        "sendSelection", "sendWorkspaceInfo", "addCurrentFileContext",
        "addSelectionContext", "addWorkspaceContext", "showContextMenu",
        "requestHistory", "requestFileSuggestions", "addFileToContext",
        "applyInline", "webviewReady", "insertLabel"}
  ELSE {"userMessage", "setProvider", "requestHistory", "requestFileSuggestions",
        "addFileToContext"}

\* Message m arrives from surface s and its listeners run up to their
\* first suspension.
Receive(s, m) ==
  /\ Live(s)
  /\ m.type \in Handles(s)
  /\ nMsgs' = nMsgs + 1
  /\ \E env \in EnvsFor(m) : Becomes(OnDidReceiveMessage(Now, s, m, env))
  /\ UNCHANGED <<view, panel, keep>>

\* Message m arrives from a surface whose listener has no branch for its
\* type: nothing happens.
Ignored(s, m) ==
  /\ Live(s)
  /\ m.type \notin Handles(s)
  /\ UNCHANGED vars

\* The file reads of the context bubbles of turn t return (line 318).
ContextRead(t) ==
  /\ t \in 1..Len(turns)
  /\ turns[t].pc = "resolving"
  /\ \E reads \in BubbleReads(files, turns[t].msg.contextItems) :
       Becomes(BeginTurn(Now, t, reads))
  /\ UNCHANGED <<view, panel, keep, nMsgs>>

\* The call of turn t settles with res (lines 376-394).
SettleTurn(ns, t, res) ==
  LET st == SettleSegment(SegmentOf(ns), t, res)
  IN Commit([ns EXCEPT !.turns[t].pc = IF st.threw THEN "rejected" ELSE "done",
                       !.turns[t].res = res,
                       !.files = IF ns.turns[t].route = "edit" THEN res.disk ELSE @],
            st)

\* The key is set and the provider answers with its text or with a
\* non-success; or the turn was a command.
Settle(t) ==
  /\ t \in 1..Len(turns)
  /\ turns[t].pc = "awaiting"
  /\ \E res \in UsualResults(turns[t]) : Becomes(SettleTurn(Now, t, res))
  /\ UNCHANGED <<view, panel, keep, nMsgs>>

\* The call of turn t settles in one of the other ways: the API key is
\* empty, or the success body lacks the text.
SettleOther(t) ==
  /\ t \in 1..Len(turns)
  /\ turns[t].pc = "awaiting"
  /\ \E res \in CallResults(turns[t]) \ UsualResults(turns[t]) :
       Becomes(SettleTurn(Now, t, res))
  /\ UNCHANGED <<view, panel, keep, nMsgs>>

Without(ns, i) == [ns EXCEPT !.tasks = RemoveAt(@, i)]

Pending(i, kind) == i \in 1..Len(tasks) /\ tasks[i].kind = kind

\* config.update of setProvider completes (lines 94-100, 235-240).
ConfigUpdated(i) ==
  /\ Pending(i, "configUpdate")
  /\ Becomes([Without(Now, i) EXCEPT !.activeProvider = tasks[i].arg])
  /\ UNCHANGED <<view, panel, keep, nMsgs>>

\* applyEdit of _handleApplyInline completes (line 2646).
ApplyEditDone(i) ==
  /\ Pending(i, "applyEdit")
  /\ Becomes(ApplyInlineDone(Without(Now, i), tasks[i].arg))
  /\ UNCHANGED <<view, panel, keep, nMsgs>>

\* applyEdit of an undo listener completes (line 2662).
UndoEditDone(i) ==
  /\ Pending(i, "undoEdit")
  /\ Becomes(UndoDone(Without(Now, i), tasks[i].arg))
  /\ UNCHANGED <<view, panel, keep, nMsgs>>

\* The callback of the notification of _showPreviewAndApply up to its await
\* (lines 2215-2222): Show Diff goes on to _showDiff, Apply to
\* _handleEditFile, anything else ends the flow.
AnswerPrompt(ns, i, choice) ==
  CASE choice = "Show Diff" ->
         [ns EXCEPT !.tasks[i] = Task("showDiff", ns.tasks[i].arg)]
    [] choice = "Apply" ->
         [ns EXCEPT !.tasks[i] = Task("editFile", ns.tasks[i].arg)]
    [] OTHER -> Without(ns, i)

\* The notification of _showPreviewAndApply is answered.
PromptAnswered(i) ==
  /\ Pending(i, "prompt")
  /\ \E choice \in {"Show Diff", "Apply", "Cancel"} :
       Becomes(AnswerPrompt(Now, i, choice))
  /\ UNCHANGED <<view, panel, keep, nMsgs>>

\* _showDiff returns (lines 2226-2271): two untitled documents were opened
\* side by side, and the callback of the notification ends (line 2217).
ShowDiffDone(i) ==
  /\ Pending(i, "showDiff")
  /\ Becomes(Without(Now, i))
  /\ UNCHANGED <<view, panel, keep, nMsgs>>

\* _handleEditFile of the preview flow returns (line 2219).
EditFileDone(i) ==
  /\ Pending(i, "editFile")
  /\ Becomes(PreviewApplied(Without(Now, i), PreviewEdit(files, tasks[i].arg)))
  /\ UNCHANGED <<view, panel, keep, nMsgs>>

\* A findFiles that returns only when no provider call is outstanding.
FindFilesDoneAfterCalls(i) ==
  /\ Pending(i, "findFiles")
  /\ \A t \in DOMAIN turns : turns[t].pc # "awaiting"
  /\ Becomes(Without(Now, i))
  /\ UNCHANGED <<view, panel, keep, nMsgs>>

\* findFiles of _handleFileSuggestions returns (lines 410-438);
\* showFileSuggestions is no history payload.
FindFilesDone(i) ==
  /\ Pending(i, "findFiles")
  /\ Becomes(Without(Now, i))
  /\ UNCHANGED <<view, panel, keep, nMsgs>>

\* readFile of addFileToContext returns; the listener drops the result
\* (lines 123-124).
ReadFileDone(i) ==
  /\ Pending(i, "readFile")
  /\ Becomes(Without(Now, i))
  /\ UNCHANGED <<view, panel, keep, nMsgs>>

\* In Spec the API keys are set and a success body holds its text;
\* SpecCalls has the other outcomes of a call.
Next ==
  \/ ResolveWebviewView
  \/ OpenChatPanel
  \/ PanelDisposed
  \/ \E s \in Surfaces, m \in InboundMessages : nMsgs < MaxMsgs /\ Receive(s, m)
  \/ \E s \in Surfaces, m \in InboundMessages : Ignored(s, m)
  \/ \E t \in DOMAIN turns : ContextRead(t)
  \/ \E t \in DOMAIN turns : Settle(t)
  \/ \E i \in DOMAIN tasks :
       \/ ConfigUpdated(i)
       \/ ApplyEditDone(i)
       \/ UndoEditDone(i)
       \/ PromptAnswered(i)
       \/ ShowDiffDone(i)
       \/ EditFileDone(i)
       \/ FindFilesDone(i)
       \/ ReadFileDone(i)

Spec == Init /\ [][Next]_vars

-----------------------------------------------------------------------------
\* The user turns alone: the surfaces are up before the first message and
\* only userMessage without context bubbles arrives.

InitTurns ==
  /\ view \in BOOLEAN
  /\ panel \in BOOLEAN
  /\ view \/ panel
  /\ messageHistory = <<>>
  /\ viewPosted = <<>>
  /\ panelPosted = (IF panel THEN <<messageHistory>> ELSE <<>>)
  /\ keep = 1
  /\ activeProvider = "gpt"
  /\ turns = <<>>
  /\ tasks = <<>>
  /\ undoHandlers = <<>>
  /\ files = InitialFiles
  /\ document = InitialDocument
  /\ nMsgs = 0

TurnMessages == {m \in UserMessages : m.contextItems = <<>>}

SettleSome == \E t \in DOMAIN turns : Settle(t)

NextTurns ==
  \/ \E s \in Surfaces, m \in TurnMessages : Len(turns) < MaxTurns /\ Receive(s, m)
  \/ SettleSome

SpecTurns == InitTurns /\ [][NextTurns]_vars

\* Every provider call settles: the HTTP request of a dispatched turn
\* returns or fails, and the handler is resumed.
FairTurns == SpecTurns /\ WF_vars(SettleSome)


-----------------------------------------------------------------------------
\* One user turn and nothing else.  The initial states are states of Spec
\* in which no handler is suspended: a fresh controller with its surfaces
\* up, or one whose side panel has applied one inline suggestion (its
\* notice is in the history and its undo listener is registered) with the
\* detachable panel, if any, opened afterwards.  The logs retain MaxKeep
\* payloads.

AppliedEdit == [target |-> "selection", codeBlock |-> <<"y=2">>,
                range |-> Selection, oldText |-> GetText(InitialDocument, Selection)]

AppliedNotice == Msg("system", <<"Applied suggestion to ", "selection", ". [Undo]">>, 0)

InitSingleTurn ==
  /\ view \in BOOLEAN
  /\ panel \in BOOLEAN
  /\ view \/ panel
  /\ keep = MaxKeep
  /\ activeProvider \in {"gpt", "claude"}
  /\ turns = <<>>
  /\ tasks = <<>>
  /\ files = InitialFiles
  /\ \/ /\ messageHistory = <<>>
        /\ undoHandlers = <<>>
        /\ document = InitialDocument
        /\ viewPosted = <<>>
        /\ nMsgs = 0
     \/ /\ view
        /\ messageHistory = <<AppliedNotice>>
        /\ undoHandlers = <<AppliedEdit>>
        /\ document = ReplaceRange(InitialDocument, AppliedEdit.range,
                                   AppliedEdit.codeBlock)
        /\ viewPosted = <<messageHistory>>
        /\ nMsgs = 1
  /\ panelPosted = (IF panel THEN <<messageHistory, messageHistory>> ELSE <<>>)

NextSingleTurn ==
  \/ \E s \in Surfaces, m \in UserMessages : turns = <<>> /\ Receive(s, m)
  \/ \E t \in DOMAIN turns : ContextRead(t)
  \/ SettleSome
  \/ \E i \in DOMAIN tasks : UndoEditDone(i)

SpecSingleTurn == InitSingleTurn /\ [][NextSingleTurn]_vars

-----------------------------------------------------------------------------
\* The provider calls in full: the side panel is up, the configuration
\* holds any provider and any API key, plain userMessages arrive, and a
\* call settles in every way the provider functions allow.

InitCalls ==
  /\ view = TRUE
  /\ panel = FALSE
  /\ messageHistory = <<>>
  /\ viewPosted = <<>>
  /\ panelPosted = <<>>
  /\ keep = 1
  /\ activeProvider \in Providers
  /\ turns = <<>>
  /\ tasks = <<>>
  /\ undoHandlers = <<>>
  /\ files = InitialFiles
  /\ document = InitialDocument
  /\ nMsgs = 0

NextCalls ==
  \/ \E s \in Surfaces :
       Len(turns) < MaxCalls /\ Receive(s, UserMessage(<<"hi">>, <<>>))
  \/ \E t \in DOMAIN turns : Settle(t)
  \/ \E t \in DOMAIN turns : SettleOther(t)

SpecCalls == InitCalls /\ [][NextCalls]_vars

-----------------------------------------------------------------------------
\* The commands: the side panel is up, the provider is gpt with its key
\* set, and /read and /edit messages arrive with paths inside and outside
\* the workspace root, some of them with a marker, a bubble or an inline
\* reference; previewEdit arrives for paths inside and outside the root.

SelectionBubble == [type |-> "selection", path |-> <<>>, name |-> "demo.ts:3-3",
                    icon |-> "(memo)", content |-> <<"x=1">>]

InlineReference ==
  [reference |-> "@demo.ts:3-3",
   data |-> [icon |-> "(memo)", name |-> "demo.ts:3-3", content |-> <<"x=1">>]]

NotesPath == <<"notes.md">>
NewPath == <<"sub", "/", "..", "/", "new.md">>
ParentPath == <<"..", "/", "outside.txt">>
SiblingPath == <<"..", "/", "ws", "2", "/", "x">>

NewContent == <<"New", " ", "content">>

ReadCommand(p) == UserMessage(<<"/read ">> \o p, <<>>)

EditCommand(p) == UserMessage(<<"/edit ">> \o p \o <<" ">> \o NewContent, <<>>)

CommandMessages ==
  {ReadCommand(p) : p \in {NotesPath, ParentPath, SiblingPath}}
  \cup {EditCommand(p) : p \in {NotesPath, NewPath, ParentPath, SiblingPath}}
  \cup {UserMessage(<<"/edit ", "notes.md", " ", "\n", "a", " ">>, <<>>),
        UserMessage(<<"/edit ", "notes.md">>, <<>>),
        UserMessage(<<"/read ", "notes.md", " ", "[file]">>, <<>>),
        UserMessage(<<"/edit ">> \o NotesPath \o <<" ">> \o NewContent,
                    <<SelectionBubble>>),
        [UserMessage(<<"/read ", "notes.md", " ", "@demo.ts:3-3">>, <<>>)
           EXCEPT !.inlineReferences = <<InlineReference>>]}

PreviewMessages ==
  {[type |-> "previewEdit", filePath |-> p, newContent |-> NewContent] :
     p \in {NewPath, SiblingPath}}

InitCommands ==
  /\ view = TRUE
  /\ panel = FALSE
  /\ messageHistory = <<>>
  /\ viewPosted = <<>>
  /\ panelPosted = <<>>
  /\ keep = 1
  /\ activeProvider = "gpt"
  /\ turns = <<>>
  /\ tasks = <<>>
  /\ undoHandlers = <<>>
  /\ files = InitialFiles
  /\ document = InitialDocument
  /\ nMsgs = 0

NextCommands ==
  \/ \E m \in CommandMessages \cup PreviewMessages :
       nMsgs < MaxCommands /\ Receive("view", m)
  \/ \E t \in DOMAIN turns : Settle(t)
  \/ \E i \in DOMAIN tasks : PromptAnswered(i)
  \/ \E i \in DOMAIN tasks : ShowDiffDone(i)
  \/ \E i \in DOMAIN tasks : EditFileDone(i)

SpecCommands == InitCommands /\ [][NextCommands]_vars

-----------------------------------------------------------------------------
\* The prompts: the side panel is up and userMessages arrive with markers,
\* bubbles and inline references, with and without an editor selection.

PromptMessages ==
  {UserMessage(<<"fix ", "[selection]">>, <<>>),
   UserMessage(<<"explain ", "[file]", " in ", "[workspace]">>, <<>>),
   UserMessage(<<"fix ", "[selection]", " in ", "[file]">>, <<>>),
   UserMessage(<<"fix ", "[selection]">>, <<SelectionBubble, FileBubble>>),
   UserMessage(<<"hi">>, <<>>),
   [UserMessage(<<"see ", "@demo.ts:3-3">>, <<>>)
      EXCEPT !.inlineReferences = <<InlineReference>>]}

InitPrompts ==
  /\ view = TRUE
  /\ panel = FALSE
  /\ messageHistory = <<>>
  /\ viewPosted = <<>>
  /\ panelPosted = <<>>
  /\ keep = 1
  /\ activeProvider \in {"gpt", "gemini"}
  /\ turns = <<>>
  /\ tasks = <<>>
  /\ undoHandlers = <<>>
  /\ files = InitialFiles
  /\ document = InitialDocument
  /\ nMsgs = 0

NextPrompts ==
  \/ \E m \in PromptMessages : nMsgs < MaxPrompts /\ Receive("view", m)
  \/ \E t \in DOMAIN turns : ContextRead(t)
  \/ \E t \in DOMAIN turns : Settle(t)

SpecPrompts == InitPrompts /\ [][NextPrompts]_vars

-----------------------------------------------------------------------------
\* The bubbles: userMessages arrive with a file bubble and with a selection
\* bubble captured earlier, and /edit rewrites the file of the bubble.

BubbleMessages ==
  {UserMessage(<<"hi">>, <<FileBubble>>),
   UserMessage(<<"hi">>, <<[SelectionBubble EXCEPT !.content = <<"x=0">>], FileBubble>>),
   EditCommand(<<"a.ts">>)}

NextBubbles ==
  \/ \E m \in BubbleMessages : nMsgs < MaxBubbles /\ Receive("view", m)
  \/ \E t \in DOMAIN turns : ContextRead(t)
  \/ \E t \in DOMAIN turns : Settle(t)

SpecBubbles == InitCommands /\ [][NextBubbles]_vars

-----------------------------------------------------------------------------
\* The edits: the side panel is up, code blocks of the selection's length
\* and longer are applied to the editor, a preview rewrites a file of the
\* workspace, and the user types undo.  The provider has not answered yet.

ApplyInline(target, codeBlock) ==
  [type |-> "applyInline", target |-> target, codeBlock |-> codeBlock]

Undo == UserMessage(<<"undo">>, <<>>)

PreviewNotes ==
  [type |-> "previewEdit", filePath |-> NotesPath, newContent |-> NewContent]

EditMessages ==
  {ApplyInline("selection", <<"y=2">>),
   ApplyInline("selection", <<"y=2", "z=3">>),
   Undo, PreviewNotes}

NextEdits ==
  \/ \E m \in EditMessages : nMsgs < MaxEdits /\ Receive("view", m)
  \/ \E i \in DOMAIN tasks : ApplyEditDone(i)
  \/ \E i \in DOMAIN tasks : UndoEditDone(i)
  \/ \E i \in DOMAIN tasks : PromptAnswered(i)
  \/ \E i \in DOMAIN tasks : ShowDiffDone(i)
  \/ \E i \in DOMAIN tasks : EditFileDone(i)

SpecEdits == InitCommands /\ [][NextEdits]_vars

-----------------------------------------------------------------------------
\* The webview: renderHistory (lines 1201-1284) and the buttons it attaches
\* to an assistant entry.

Fence == "'''"

\* A token that carries a fence next to a line break, taken apart.
Pieces(tok) ==
  CASE tok = "'''\n" -> <<Fence, "\n">>
    [] tok = "\n'''" -> <<"\n", Fence>>
    [] OTHER -> <<tok>>

RECURSIVE Characters(_)
Characters(text) ==
  IF text = <<>> THEN <<>> ELSE Pieces(Head(text)) \o Characters(Tail(text))

\* extractFirstCodeBlock (lines 1186-1199): the text before the first fence
\* and the text between the first two fences; null without two fences.
ExtractFirstCodeBlock(text) ==
  LET t == Characters(text)
  IN IF ~Includes(t, Fence) THEN Null
     ELSE LET start == IndexOf(t, Fence)
              rest == SubSeq(t, start + 1, Len(t))
          IN IF ~Includes(rest, Fence) THEN Null
             ELSE [before |-> SubSeq(t, 1, start - 1),
                   code |-> SubSeq(rest, 1, IndexOf(rest, Fence) - 1)]

ReplaceMarker == "Replace content of "

\* after.trim().split(/\s+/)[0] (lines 1242-1243)
FirstToken(text) ==
  LET t == Trim(text)
      ws == {i \in 1..Len(t) : t[i] \in Whitespace}
  IN IF ws = {} THEN t
     ELSE SubSeq(t, 1, (CHOOSE i \in ws : \A j \in ws : i <= j) - 1)

\* A path taken from the text before the fence whether or not the marker
\* stands in it.
PreviewPathAnyText(before) == FirstToken(before)

\* The path of the Preview & Apply button (lines 1232-1246); empty without
\* the marker.
PreviewPath(before) ==
  IF ~Includes(before, ReplaceMarker) THEN <<>>
  ELSE LET after == SubSeq(before, IndexOf(before, ReplaceMarker) + 1, Len(before))
       IN IF Includes(after, " with:")
          THEN Trim(SubSeq(after, 1, IndexOf(after, " with:") - 1))
          ELSE FirstToken(after)

\* toLowerCase on the words of the model.
LowerCase(tok) ==
  CASE tok = "Selection" -> "selection"
    [] tok = "Current File" -> "current file"
    [] OTHER -> tok

Mentions(before, word) == \E i \in 1..Len(before) : LowerCase(before[i]) = word

\* The target of the inline button (lines 1260-1265); "null" is null.
InlineTarget(before) ==
  IF Mentions(before, "selection") THEN "selection"
  ELSE IF Mentions(before, "current file") THEN "current file"
       ELSE "null"

\* The messages the buttons of an assistant entry send when clicked
\* (lines 1226-1279).
Affordances(content) ==
  LET cb == ExtractFirstCodeBlock(content)
  IN IF cb = Null \/ cb.code = <<>> THEN {}
     ELSE (IF PreviewPath(cb.before) # <<>>
           THEN {[type |-> "previewEdit", filePath |-> PreviewPath(cb.before),
                  newContent |-> cb.code]}
           ELSE {})
          \cup {ApplyInline(InlineTarget(cb.before), cb.code)}

\* The history the side panel shows: the last payload it was sent.
Rendered == IF viewPosted = <<>> THEN <<>> ELSE viewPosted[Len(viewPosted)]

\* A button of an assistant entry is clicked (lines 1251-1253, 1271-1273).
Click ==
  \E k \in DOMAIN Rendered :
    /\ Rendered[k].role = "ai"
    /\ \E m \in Affordances(Rendered[k].content) : Receive("view", m)

\* The answers of the provider that hold a fence, with and without the
\* words the webview looks for before it.
AssistantTexts ==
  {<<"Try:", "\n", Fence, "y=2", Fence>>,
   <<ReplaceMarker, "notes.md", " with:", "\n", Fence, "New", Fence>>,
   <<ReplaceMarker, " ", "notes.md", "\n", Fence, "New", Fence>>,
   <<"For the ", "Selection", ":", Fence, "y=2", Fence, " or ", Fence, "z=3", Fence>>,
   <<"In the ", "current file", ":", Fence, "y=2", Fence>>,
   <<"The ", "selection", " is fine, see ", Fence, "y=2">>}

\* The provider of turn t answers with a text of the model.
Answer(t) ==
  /\ t \in 1..Len(turns)
  /\ turns[t].pc = "awaiting"
  /\ turns[t].route \in Providers
  /\ \E text \in AssistantTexts :
       Becomes(SettleTurn(Now, t,
         ProviderCall(turns[t].route, "sk-1",
                      Success(Envelope(Len(TextPath(turns[t].route)), text)))))
  /\ UNCHANGED <<view, panel, keep, nMsgs>>

NextButtons ==
  \/ \E m \in {UserMessage(<<"hi">>, <<>>), ReadCommand(NotesPath)} :
       Len(turns) < MaxClicks - 1 /\ nMsgs < MaxClicks /\ Receive("view", m)
  \/ nMsgs < MaxClicks /\ Click
  \/ \E t \in DOMAIN turns : Answer(t)
  \/ \E t \in DOMAIN turns : Settle(t)
  \/ \E i \in DOMAIN tasks : ApplyEditDone(i)
  \/ \E i \in DOMAIN tasks : PromptAnswered(i)
  \/ \E i \in DOMAIN tasks : ShowDiffDone(i)
  \/ \E i \in DOMAIN tasks : EditFileDone(i)

SpecButtons == InitCommands /\ [][NextButtons]_vars

-----------------------------------------------------------------------------
\* Properties of the loading indicator and of the terminal entry of a turn.

Last(h) == h[Len(h)]

Range(f) == {f[i] : i \in DOMAIN f}

\* How many entries of h have a role in roles.
Count(h, roles) == Cardinality({i \in DOMAIN h : h[i].role \in roles})

Terminal == {"ai", "error"}

\* The history and every payload the surfaces hold.
Payloads == {messageHistory} \cup Range(viewPosted) \cup Range(panelPosted)

InFlight(t) == turns[t].pc = "awaiting"

Settled(t) == turns[t].pc \in {"done", "rejected"}

\* C1: the history and every payload hold at most one loading entry, also
\* when a second userMessage arrives while an earlier call is outstanding.
C1_AtMostOneLoading == \A h \in Payloads : Count(h, {"loading"}) <= 1

\* C2: under every interleaving of the handlers and of the completions of
\* provider calls, no history and no payload has two adjacent loading
\* entries.
C2_NoAdjacentLoading ==
  \A h \in Payloads : \A i \in 1..(Len(h) - 1) :
    ~(h[i].role = "loading" /\ h[i + 1].role = "loading")

\* Two calls are outstanding and the history shows both indicators.
C2_TwoLoadingsApart ==
  /\ Count(messageHistory, {"loading"}) = 2
  /\ \E t, u \in DOMAIN turns : t # u /\ InFlight(t) /\ InFlight(u)

\* C3: every dispatched turn appends exactly one terminal entry when its
\* call settles, ai on success and error on failure, and none before; the
\* terminal entries of the history are as many as the settled turns.
C3_OneTerminalPerTurn ==
  /\ \A t \in DOMAIN turns :
       LET mine == {i \in DOMAIN messageHistory :
                      /\ messageHistory[i].turn = t
                      /\ messageHistory[i].role \in Terminal}
       IN IF Settled(t)
          THEN /\ Cardinality(mine) = 1
               /\ \A i \in mine :
                    messageHistory[i].role = IF turns[t].res.ok THEN "ai" ELSE "error"
          ELSE mine = {}
  /\ Count(messageHistory, Terminal)
       = Cardinality({t \in DOMAIN turns : Settled(t)})

\* Two turns have settled, one with an answer and one with a failure.
C3_BothOutcomesSettled ==
  /\ \E t, u \in DOMAIN turns :
       /\ Settled(t) /\ Settled(u)
       /\ turns[t].res.ok /\ ~turns[u].res.ok
  /\ Count(messageHistory, {"ai"}) = 1
  /\ Count(messageHistory, {"error"}) = 1

\* C4: on the success path and on the failure path every loading entry is
\* removed before the terminal entry is appended: in the history and in
\* every payload no loading entry stands before a terminal entry, so the
\* history right after a terminal entry holds no loading entry.
C4_NoLoadingBeforeTerminal ==
  \A h \in Payloads : \A i, j \in DOMAIN h :
    i < j /\ h[j].role \in Terminal => h[i].role # "loading"

\* A turn has settled while another call was outstanding: the history ends
\* with its terminal entry and the indicator of the other turn is gone too.
C4_SettledWhileOtherInFlight ==
  /\ \E t, u \in DOMAIN turns : Settled(t) /\ InFlight(u)
  /\ messageHistory # <<>>
  /\ Last(messageHistory).role \in Terminal
  /\ Count(messageHistory, {"loading"}) = 0

\* C5: if every provider call settles, every loading entry is removed and
\* every dispatched turn gets its terminal entry, and while no call is
\* outstanding the history holds no loading entry.
C5_LoadingEventuallyCleared ==
  /\ (\E t \in DOMAIN turns : InFlight(t))
       ~> (/\ Count(messageHistory, {"loading"}) = 0
           /\ \A t \in DOMAIN turns :
                /\ Settled(t)
                /\ \E i \in DOMAIN messageHistory :
                     /\ messageHistory[i].turn = t
                     /\ messageHistory[i].role \in Terminal)
  /\ []((\A t \in DOMAIN turns : ~InFlight(t))
          => Count(messageHistory, {"loading"}) = 0)

\* Every call of a behaviour with two turns has settled.
C5_AllCallsSettled ==
  /\ Len(turns) = 2
  /\ \A t \in DOMAIN turns : Settled(t)
  /\ Count(messageHistory, {"loading"}) = 0

-----------------------------------------------------------------------------
\* Properties of the broadcast.

\* The payloads of a log that hold an entry of the turn.
TurnPayloads(log) ==
  SelectSeq(log, LAMBDA p : \E i \in DOMAIN p : p[i].turn = 1)

\* The last two entries of p are the user entry of the turn and then an
\* entry of the turn with a role in roles.
EndsWithTurn(p, roles) ==
  /\ Len(p) >= 2
  /\ p[Len(p) - 1].role = "user" /\ p[Len(p) - 1].turn = 1
  /\ p[Len(p)].role \in roles /\ p[Len(p)].turn = 1

\* What the surface with this log has received of the turn: the payload
\* ending with the user entry, the one ending with user and loading, and,
\* once the call has settled, the one ending with user and the terminal
\* entry, without a loading entry; nothing else.
ThreePayloads(log) ==
  LET p == TurnPayloads(log)
  IN /\ Len(p) = (CASE turns[1].pc = "resolving" -> 0
                    [] turns[1].pc = "awaiting" -> 2
                    [] OTHER -> 3)
     /\ Len(p) >= 2 =>
          /\ Last(p[1]).role = "user" /\ Last(p[1]).turn = 1
          /\ p[2] = Append(p[1], Msg("loading", <<"Thinking...">>, 1))
     /\ Len(p) >= 3 =>
          /\ EndsWithTurn(p[3], Terminal)
          /\ SubSeq(p[3], 1, Len(p[3]) - 1) = p[1]
          /\ Count(p[3], {"loading"}) = 0

\* An undo listener of the side panel has been called with the message of
\* the turn.
UndoFired ==
  \/ \E i \in DOMAIN tasks : tasks[i].kind = "undoEdit"
  \/ \E i \in DOMAIN messageHistory : messageHistory[i].content = <<"Undo applied.">>

\* C6 as stated: for a single user turn each live surface receives exactly
\* three payloads, ending with the user entry, with user and loading, and
\* after the call settles with user and the terminal entry.
C6_ThreePayloadsPerTurn ==
  turns # <<>> =>
    /\ view => ThreePayloads(viewPosted)
    /\ panel => ThreePayloads(panelPosted)

\* C6: for a single user turn whose message calls no undo listener, each
\* live surface receives exactly three payloads, ending with the user
\* entry, with user and loading, and after the call settles with user and
\* the terminal entry and no loading entry.
C6_ThreePayloadsUnlessUndo ==
  turns # <<>> /\ ~UndoFired =>
    /\ view => ThreePayloads(viewPosted)
    /\ panel => ThreePayloads(panelPosted)

\* The turn has settled with both surfaces live and each has its three
\* payloads.
C6_TurnSettledOnBothSurfaces ==
  /\ view /\ panel
  /\ turns # <<>> /\ Settled(1) /\ ~UndoFired
  /\ Len(TurnPayloads(viewPosted)) = 3
  /\ Len(TurnPayloads(panelPosted)) = 3

\* C7: every step that changes the history sends the new history to every
\* live surface, the side panel and the detachable panel alike: when the
\* step ends the last payload of each live surface is the history.
C7_EveryLiveSurfaceUpToDate ==
  [][messageHistory' # messageHistory =>
       /\ view' => viewPosted' # <<>> /\ Last(viewPosted') = messageHistory'
       /\ panel' => panelPosted' # <<>> /\ Last(panelPosted') = messageHistory']_vars

\* The controller as it would be with both surfaces live.
BothLive == [Now EXCEPT !.view = TRUE, !.panel = TRUE]

\* Two outcomes of a handler step agree on the history and on the turns
\* (a turn whose handler threw is marked rejected).
SameHistory(a, b) == a.messageHistory = b.messageHistory /\ a.turns = b.turns

\* C8: with the side panel, the detachable panel or both not live, every
\* step a handler can take from the state changes the history exactly as
\* with both surfaces live, no handler has thrown, and every error entry
\* is the terminal entry of a turn whose call failed.
C8_MissingSurfaceChangesNothing ==
  /\ \A t \in DOMAIN turns : turns[t].pc # "rejected"
  /\ \A i \in DOMAIN messageHistory :
       messageHistory[i].role = "error" =>
         /\ messageHistory[i].turn \in DOMAIN turns
         /\ ~turns[messageHistory[i].turn].res.ok
  /\ \A s \in Surfaces, m \in InboundMessages :
       Live(s) /\ m.type \in Handles(s) =>
         \A env \in EnvsFor(m) :
           SameHistory(OnDidReceiveMessage(Now, s, m, env),
                       OnDidReceiveMessage(BothLive, s, m, env))
  /\ \A t \in DOMAIN turns :
       /\ turns[t].pc = "resolving" =>
            \A reads \in BubbleReads(files, turns[t].msg.contextItems) :
              SameHistory(BeginTurn(Now, t, reads), BeginTurn(BothLive, t, reads))
       /\ turns[t].pc = "awaiting" =>
            \A res \in CallResults(turns[t]) :
              SameHistory(SettleTurn(Now, t, res), SettleTurn(BothLive, t, res))
  /\ \A i \in DOMAIN tasks :
       /\ tasks[i].kind = "applyEdit" =>
            SameHistory(ApplyInlineDone(Without(Now, i), tasks[i].arg),
                        ApplyInlineDone(Without(BothLive, i), tasks[i].arg))
       /\ tasks[i].kind = "undoEdit" =>
            SameHistory(UndoDone(Without(Now, i), tasks[i].arg),
                        UndoDone(Without(BothLive, i), tasks[i].arg))
       /\ tasks[i].kind = "editFile" =>
            SameHistory(PreviewApplied(Without(Now, i), PreviewEdit(files, tasks[i].arg)),
                        PreviewApplied(Without(BothLive, i), PreviewEdit(files, tasks[i].arg)))

\* A turn sent from the detachable panel has settled with an answer while
\* the side panel was never opened and the detachable panel is disposed.
C8_TurnDoneWithNoSurface ==
  /\ ~view /\ ~panel
  /\ \E t \in DOMAIN turns : turns[t].pc = "done" /\ turns[t].res.ok
  /\ messageHistory # <<>> /\ Last(messageHistory).role = "ai"

\* What a message changes of the controller and, through the suspended
\* handlers, of the editor.
Effect(ns) == [messageHistory |-> ns.messageHistory, turns |-> ns.turns,
               tasks |-> ns.tasks, undoHandlers |-> ns.undoHandlers,
               activeProvider |-> ns.activeProvider]

\* C9: every inbound message type has the same effect on the controller
\* and the editor whether the side panel or the detachable panel sends it.
C9_SymmetricSources ==
  view /\ panel =>
    \A m \in InboundMessages : \A env \in EnvsFor(m) :
      Effect(OnDidReceiveMessage(Now, "view", m, env))
        = Effect(OnDidReceiveMessage(Now, "panel", m, env))

-----------------------------------------------------------------------------
\* Properties of the provider calls.

\* The positions of the history that hold an entry of turn t with a role
\* in roles.
EntriesOf(t, roles) ==
  {i \in DOMAIN messageHistory :
     messageHistory[i].turn = t /\ messageHistory[i].role \in roles}

\* Turn t is dispatched by the step.
Dispatched(t) ==
  /\ t \in DOMAIN turns'
  /\ t \notin DOMAIN turns \/ turns[t].pc = "resolving"
  /\ turns'[t].pc = "awaiting"

\* C11: for each of the four providers the request of a turn carries every
\* user and ai entry the history held before the turn, in order and under
\* the role names of the provider, and ends with the new prompt.
C11_RequestCarriesHistory ==
  [][\A t \in DOMAIN turns' :
       Dispatched(t) /\ turns'[t].route \in Providers =>
         LET req == turns'[t].request
             prior == MappedHistory(turns'[t].route, messageHistory)
         IN /\ Len(req) > Len(prior)
            /\ SubSeq(req, 1, Len(prior)) = prior
            /\ Last(req) = [role |-> "user", content |-> turns'[t].full]]_vars

NoKeyText(p) ==
  <<"No " \o ApiName(p) \o " API key set. Please add it in the extension settings.">>

\* The call of turn t failed on the empty API key.
FailedOnKey(t) ==
  /\ turns[t].pc = "done"
  /\ turns[t].route \in Providers
  /\ turns[t].res = [ok |-> FALSE, text |-> NoKeyText(turns[t].route), requests |-> 0]

\* The history after one more plain userMessage from the side panel.
NextUserMessage == OnDidReceiveMessage(Now, "view", UserMessage(<<"hi">>, <<>>),
                                       Env(TRUE, FALSE, TRUE, TRUE))

\* C12: with an empty API key the call of any provider fails without a
\* request and with an error that names the provider; the turn ends with
\* exactly one error entry holding that error, no ai entry and no loading
\* entry of its own, and a later userMessage is dispatched as a turn.
C12_EmptyKeyFailsFast ==
  /\ \A p \in Providers : \A resp \in HttpResponses(p) :
       ProviderCall(p, "", resp)
         = [ok |-> FALSE, text |-> NoKeyText(p), requests |-> 0]
  /\ \A p, q \in Providers : p # q => NoKeyText(p) # NoKeyText(q)
  /\ \A t \in DOMAIN turns :
       FailedOnKey(t) =>
         /\ Cardinality(EntriesOf(t, {"error"})) = 1
         /\ \A i \in EntriesOf(t, {"error"}) :
              messageHistory[i].content = <<"Error: ">> \o NoKeyText(turns[t].route)
         /\ EntriesOf(t, {"ai", "loading"}) = {}
         /\ LET n == NextUserMessage
                u == Len(turns) + 1
            IN /\ Len(n.turns) = u
               /\ n.turns[u].pc = "awaiting"
               /\ n.messageHistory = messageHistory \o
                    <<Msg("user", <<"hi">>, u), Msg("loading", <<"Thinking...">>, u)>>

\* A turn failed on the empty key and the call of a later turn is out.
C12_TurnAfterMissingKey ==
  \E t, u \in DOMAIN turns :
    /\ t < u
    /\ FailedOnKey(t)
    /\ turns[u].pc = "awaiting"
    /\ \E i \in EntriesOf(t, {"error"}), j \in EntriesOf(u, {"user"}) : i < j

\* The call of turn t failed on a non-success response.
FailedOnTransport(t) ==
  /\ turns[t].pc = "done"
  /\ turns[t].route \in Providers
  /\ ~turns[t].res.ok
  /\ turns[t].res.text # NoKeyText(turns[t].route)

\* C13: a non-success response of any provider fails the call with the
\* raw response body in the error, after exactly one request; the turn
\* ends with exactly one error entry that holds the body and no ai entry.
C13_TransportErrorOnce ==
  /\ \A p \in Providers, apiKey \in ApiKeys \ {""}, body \in {<<"body">>, <<"rate", " limit">>} :
       LET res == ProviderCall(p, apiKey, Failure(body))
       IN /\ ~res.ok
          /\ res.requests = 1
          /\ Len(res.text) > Len(body)
          /\ SubSeq(res.text, Len(res.text) - Len(body) + 1, Len(res.text)) = body
  /\ \A t \in DOMAIN turns :
       FailedOnTransport(t) =>
         /\ turns[t].res.requests = 1
         /\ Cardinality(EntriesOf(t, {"error"})) = 1
         /\ \A i \in EntriesOf(t, {"error"}) :
              /\ messageHistory[i].content = <<"Error: ">> \o turns[t].res.text
              /\ Last(messageHistory[i].content) = "body"
         /\ EntriesOf(t, {"ai"}) = {}

\* The call of a turn has failed on a non-success response.
C13_TurnFailedOnTransport ==
  \E t \in DOMAIN turns :
    /\ FailedOnTransport(t)
    /\ \E i \in EntriesOf(t, {"error"}) : Last(messageHistory[i].content) = "body"

\* C14: for every provider a success body that lacks the text at any level
\* of its path yields the literal [No response] as the result of the call,
\* and the turn ends with an ai entry of that content and no error entry.
C14_NoResponseFallback ==
  /\ \A p \in Providers :
       \A apiKey \in ApiKeys \ {""}, n \in 0..(Len(TextPath(p)) - 1) :
         ProviderCall(p, apiKey, Success(Envelope(n, <<>>)))
           = [ok |-> TRUE, text |-> <<"[No response]">>, requests |-> 1]
  /\ \A t \in DOMAIN turns :
       /\ turns[t].pc = "done"
       /\ turns[t].route \in Providers
       /\ turns[t].res.ok
       => /\ turns[t].res.text # <<"undefined">>
          /\ turns[t].res.text # <<>>
          /\ EntriesOf(t, {"error"}) = {}
          /\ \A i \in EntriesOf(t, {"ai"}) :
               messageHistory[i].content = turns[t].res.text

\* A turn has ended with the fallback text as its answer.
C14_TurnAnsweredNoResponse ==
  \E t \in DOMAIN turns :
    /\ turns[t].pc = "done"
    /\ turns[t].res.ok
    /\ \E i \in EntriesOf(t, {"ai"}) : messageHistory[i].content = <<"[No response]">>

-----------------------------------------------------------------------------
\* Properties of the commands.

IsCommand(text) == StartsWith(text, "/read ") \/ StartsWith(text, "/edit ")

\* C15: a userMessage whose text starts with /read or /edit never goes to
\* a provider, whatever markers, bubbles or inline references it carries.
C15_CommandsNeverReachProvider ==
  \A t \in DOMAIN turns :
    turns[t].pc # "resolving" /\ IsCommand(turns[t].msg.text) =>
      /\ turns[t].route \notin Providers
      /\ turns[t].request = <<>>

ReadNotice == <<"Error: Can only read files within the workspace.">>

EditNotice == <<"Error: Can only edit files within the workspace.">>

\* C16: a /read whose resolved path lies outside the directory of the
\* workspace root reads no file, and its turn ends with the scoping notice
\* as an ai entry and with no error entry.
C16_ReadStaysInRoot ==
  \A t \in DOMAIN turns :
    /\ turns[t].pc = "done"
    /\ turns[t].route = "read"
    /\ turns[t].ws
    /\ ~StartsWithRootDirectory(Resolve(WorkspaceRoot, ReadPath(turns[t].full)),
                                WorkspaceRoot)
    => /\ turns[t].res.read = {}
       /\ EntriesOf(t, {"error"}) = {}
       /\ \E i \in EntriesOf(t, {"ai"}) : messageHistory[i].content = ReadNotice

\* C17: no file outside the directory of the workspace root is ever
\* written: every such file is as it was when the extension started.
C17_NoWriteOutsideRoot ==
  \A p \in DOMAIN files :
    ~StartsWithRootDirectory(p, WorkspaceRoot) =>
      p \in DOMAIN InitialFiles /\ files[p] = InitialFiles[p]

\* The call of turn t settles in the step.
Settles(t) ==
  /\ t \in DOMAIN turns
  /\ turns[t].pc = "awaiting"
  /\ turns'[t].pc = "done"

-----------------------------------------------------------------------------
\* Properties of the prompt.

\* One item of the context section: its header and its fenced content.
ItemBlock(item) ==
  <<"**" \o item.icon \o " " \o item.name \o ":**\n'''\n">> \o item.content
    \o <<"\n'''">>

\* The blocks of the items from the i-th on, a blank line between two.
RECURSIVE BlocksFrom(_, _)
BlocksFrom(refs, i) ==
  IF i > Len(refs) THEN <<>>
  ELSE ItemBlock(refs[i]) \o (IF i < Len(refs) THEN <<"\n\n">> ELSE <<>>)
       \o BlocksFrom(refs, i + 1)

Template(refs, text) ==
  <<"**Context:**\n">> \o BlocksFrom(refs, 1) \o <<"\n\n**Question:**\n">> \o text

\* C19: when a turn is dispatched with at least one context item resolved,
\* the prompt passed to the dispatcher, and on to the provider, is the
\* template: the context section with every resolved item, then the
\* question section with the text of the userMessage as it was received.
C19_PromptIsTemplate ==
  [][\A t \in DOMAIN turns' :
       Dispatched(t) /\ turns'[t].refs # <<>> =>
         /\ turns'[t].full = Template(turns'[t].refs, turns'[t].msg.text)
         /\ turns'[t].route \in Providers
         /\ Last(turns'[t].request).content
              = Template(turns'[t].refs, turns'[t].msg.text)]_vars

\* A turn with a marker, a selection bubble and a file bubble is out to the
\* provider with three items in its prompt.
C19_ThreeItemsDispatched ==
  \E t \in DOMAIN turns :
    /\ turns[t].pc = "awaiting"
    /\ Len(turns[t].refs) = 3
    /\ turns[t].msg.text = <<"fix ", "[selection]">>
    /\ turns[t].full = Template(turns[t].refs, <<"fix ", "[selection]">>)

\* C20: every marker resolved for a turn stands in the user entry of the
\* turn as its bolded label, at the place of the marker, and the prompt of
\* the turn holds the content of the item in a fenced block.
C20_LabelInHistoryEntry ==
  \A t \in DOMAIN turns :
    turns[t].pc # "resolving" =>
      \A k \in DOMAIN turns[t].r.refs :
        LET item == turns[t].r.refs[k] IN
        /\ \E i \in EntriesOf(t, {"user"}) :
             Includes(messageHistory[i].content, Label(item))
        /\ \E j \in 1..(Len(turns[t].full) - Len(item.content) - 1) :
             SubSeq(turns[t].full, j, j + Len(item.content) + 1)
               = <<"**" \o item.icon \o " " \o item.name \o ":**\n'''\n">>
                 \o item.content \o <<"\n'''">>

-----------------------------------------------------------------------------
\* Properties of the resolution of markers and bubbles.

\* Marker mk stands in the text of turn t and no item was resolved for it.
Missed(t, mk, type) ==
  /\ Includes(turns[t].msg.text, mk)
  /\ \A k \in DOMAIN turns[t].r.refs : turns[t].r.refs[k].type # type

\* C21: a [selection] marker without a selection leaves the notice in the
\* user entry of the turn, whatever else the message resolves; a [file] or
\* [workspace] marker without a source stays in the entry as typed and adds
\* no item; the turn is not aborted.
C21_MissDegradesInline ==
  \A t \in DOMAIN turns :
    turns[t].pc # "resolving" =>
      /\ turns[t].pc \in {"awaiting", "done"}
      /\ Cardinality(EntriesOf(t, {"user"})) = 1
      /\ \A i \in EntriesOf(t, {"user"}) :
           /\ Missed(t, "[selection]", "selection") =>
                Includes(messageHistory[i].content, NoSelectionNotice)
           /\ Missed(t, "[file]", "file") =>
                Includes(messageHistory[i].content, "[file]")
           /\ Missed(t, "[workspace]", "workspace") =>
                Includes(messageHistory[i].content, "[workspace]")

\* The text holds the block of the item.
HasBlock(text, item) ==
  \E j \in 1..(Len(text) - Len(item.content) - 1) :
    SubSeq(text, j, j + Len(item.content) + 1) = ItemBlock(item)

ReadFailed(turn) ==
  \E i \in DOMAIN turn.msg.contextItems :
    /\ turn.msg.contextItems[i].type = "file"
    /\ i \in DOMAIN turn.reads
    /\ turn.reads[i] = Null

\* The bubbles of the turn that gave an item.
ItemsGiven(turn) ==
  {i \in DOMAIN turn.msg.contextItems :
     \/ turn.msg.contextItems[i].type = "selection"
     \/ turn.msg.contextItems[i].type = "file" /\ turn.reads[i] # Null}

\* C23: when the read of a file bubble fails the item is dropped and the
\* turn goes on: its user entry and its loading entry are appended with no
\* error entry, and when its call settles it has exactly one terminal
\* entry, an error entry only for a call that failed.
C23_FailedReadDropsItem ==
  [][\A t \in DOMAIN turns' :
       turns'[t].pc # "resolving" /\ ReadFailed(turns'[t]) =>
         /\ Dispatched(t) =>
              /\ Len(turns'[t].refs) = Len(turns'[t].r.refs)
                                       + Cardinality(ItemsGiven(turns'[t]))
                                       + Len(turns'[t].msg.inlineReferences)
              /\ messageHistory' = messageHistory \o
                   <<Msg("user", turns'[t].full, t),
                     Msg("loading", <<"Thinking...">>, t)>>
         /\ Settles(t) =>
              /\ Last(messageHistory') \in
                   {Msg("ai", turns'[t].res.text, t),
                    Msg("error", <<"Error: ">> \o turns'[t].res.text, t)}
              /\ Last(messageHistory').role = "error" => ~turns'[t].res.ok
              /\ Cardinality({n \in DOMAIN messageHistory' :
                                /\ messageHistory'[n].turn = t
                                /\ messageHistory'[n].role \in {"ai", "error"}}) = 1]_vars

\* A turn whose only bubble could not be read has been answered: its user
\* entry is the text alone.
C23_AnsweredWithoutItem ==
  \E t \in DOMAIN turns :
    /\ turns[t].pc = "done"
    /\ turns[t].res.ok
    /\ ReadFailed(turns[t])
    /\ turns[t].refs = <<>>
    /\ \E i \in EntriesOf(t, {"user"}) : messageHistory[i].content = <<"hi">>
    /\ EntriesOf(t, {"error"}) = {}
-----------------------------------------------------------------------------
\* Properties of applying a code block and of undo.

UndoApplied == Msg("system", <<"Undo applied.">>, 0)

\* How many entries of h confirm an undo.
UndoCount(h) == Cardinality({k \in DOMAIN h : h[k] = UndoApplied})

\* The positions of tk that hold a suspended handler of the kind.
Suspended(tk, kind) == {i \in DOMAIN tk : tk[i].kind = kind}

\* The step receives an undo utterance.
ReceivesUndo ==
  /\ Len(turns') = Len(turns) + 1
  /\ IsUndo(turns'[Len(turns')].msg)

\* C24: once a code block of any length has replaced a non-empty selection,
\* the undo that follows gives the document exactly the content it had
\* before the apply and appends the confirmation as a system entry.
C24_UndoRestoresDocument ==
  [][\A i \in DOMAIN tasks :
       /\ Len(undoHandlers) = 1
       /\ UndoCount(messageHistory) = 0
       /\ document = ReplaceRange(InitialDocument, Selection,
                                  undoHandlers[1].codeBlock)
       /\ undoHandlers[1].target = "selection"
       /\ undoHandlers[1].range = Selection
       /\ UndoEditDone(i)
       => /\ document' = InitialDocument
          /\ Last(messageHistory') = UndoApplied]_vars

\* C25: the first undo uses the recorded edit up: while no new apply is
\* under way, nothing that happens after it changes the document or appends
\* a further confirmation.
C25_SecondUndoDoesNothing ==
  [][/\ Len(undoHandlers) = 1
     /\ UndoCount(messageHistory) = 1
     /\ Suspended(tasks, "applyEdit") = {}
     => /\ document' = document
        /\ UndoCount(messageHistory') = 1]_vars

\* C26: after two applies with no undo between them one undo utterance
\* starts exactly one replacement, that of the range and the previous
\* content the second apply recorded.
C26_UndoRevertsLatestOnly ==
  [][/\ Len(undoHandlers) = 2
     /\ UndoCount(messageHistory) = 0
     /\ Suspended(tasks, "undoEdit") = {}
     /\ ReceivesUndo
     => \E i \in DOMAIN tasks' :
          /\ Suspended(tasks', "undoEdit") = {i}
          /\ tasks'[i].arg.range = undoHandlers[2].range
          /\ tasks'[i].arg.oldText = undoHandlers[2].oldText]_vars

\* The system entries of h, in order.
SystemEntries(h) == SelectSeq(h, LAMBDA m : m.role = "system")

\* C27: apply, undo, apply, undo with one code block on the selection, each
\* apply meeting the selection's original text: when the second undo is
\* over the document has its original content.  The first undo confirms
\* once, the second once for each of the two applies.
C27_AlternatingUndoRestores ==
  /\ Len(undoHandlers) = 2
  /\ \A k \in {1, 2} : /\ undoHandlers[k].target = "selection"
                       /\ undoHandlers[k].range = Selection
                       /\ undoHandlers[k].oldText = GetText(InitialDocument, Selection)
                       /\ undoHandlers[k].codeBlock = undoHandlers[1].codeBlock
  /\ SystemEntries(messageHistory)
       = <<AppliedNotice, UndoApplied, AppliedNotice, UndoApplied, UndoApplied>>
  /\ tasks = <<>>
  => document = InitialDocument

-----------------------------------------------------------------------------
\* Properties of the preview flow.

\* C28: Show Diff writes nothing and leaves the history as it is, and when
\* the diff is shown the proposal is offered again: its notification is
\* open, so that Show Diff, Apply or Cancel can be chosen once more.
C28_ShowDiffReturnsToProposed ==
  [][\A i \in DOMAIN tasks :
       ShowDiffDone(i) =>
         /\ files' = files
         /\ messageHistory' = messageHistory
         /\ \E j \in DOMAIN tasks' :
              tasks'[j] = Task("prompt", tasks[i].arg)]_vars

PreviewNotice ==
  Msg("system", <<"File ">> \o NotesPath \o <<" updated successfully.">>, 0)

\* C29: Apply in the preview flow records the prior content of the file, so
\* that an undo utterance sent after the write gives the file that content
\* back.
C29_UndoRestoresPreviewedFile ==
  \A k \in DOMAIN messageHistory : \A t \in DOMAIN turns :
    /\ messageHistory[k] = PreviewNotice
    /\ IsUndo(turns[t].msg)
    /\ \E j \in EntriesOf(t, {"user"}) : j > k
    /\ tasks = <<>>
    => files[Resolve(WorkspaceRoot, NotesPath)]
         = InitialFiles[Resolve(WorkspaceRoot, NotesPath)]

-----------------------------------------------------------------------------
\* Properties of the buttons of an assistant entry.

\* The text before the first fence of a text, the whole text without one.
BeforeFence(text) ==
  LET t == Characters(text)
  IN IF Includes(t, Fence) THEN SubSeq(t, 1, IndexOf(t, Fence) - 1) ELSE t

\* Neither the replace marker nor one of the two words stands before the
\* first fence.
Unmarked(text) ==
  /\ ~Includes(BeforeFence(text), ReplaceMarker)
  /\ ~Mentions(BeforeFence(text), "selection")
  /\ ~Mentions(BeforeFence(text), "current file")

\* C30 as stated: an assistant entry whose text before the first fence
\* holds neither the replace marker nor `selection` nor `current file` gets
\* no button: no previewEdit and no applyInline can be sent for it.
C30_NoMarkerNoButton ==
  \A k \in DOMAIN Rendered :
    Rendered[k].role = "ai" /\ Unmarked(Rendered[k].content)
      => Affordances(Rendered[k].content) = {}

\* C30: such an entry gets no Preview & Apply button.  With a first code
\* block that is closed and not empty it gets the one button Apply to
\* Editor, which sends applyInline with a null target and the code of the
\* block; without such a block it gets no button.
C30_UnmarkedOffersEditorOnly ==
  \A k \in DOMAIN Rendered :
    Rendered[k].role = "ai" /\ Unmarked(Rendered[k].content) =>
      LET cb == ExtractFirstCodeBlock(Rendered[k].content)
      IN Affordances(Rendered[k].content)
           = IF cb = Null \/ cb.code = <<>> THEN {}
             ELSE {ApplyInline("null", cb.code)}

\* The Apply to Editor button of an answer without marker or word was
\* clicked: its code block is on its way into the editor.
C30_EditorButtonClicked ==
  \E k \in DOMAIN Rendered : \E i \in DOMAIN tasks :
    /\ Rendered[k].role = "ai"
    /\ Rendered[k].content = <<"Try:", "\n", Fence, "y=2", Fence>>
    /\ tasks[i].kind = "applyEdit"
    /\ tasks[i].arg.target = "null"
    /\ tasks[i].arg.codeBlock = <<"y=2">>
    /\ tasks[i].arg.range = WholeFile(document)

-----------------------------------------------------------------------------
\* The handlers beside a turn: the surfaces are up, plain userMessages
\* arrive among the send messages and the requests for the history and
\* for file suggestions, calls settle and searches return.

SideMessages ==
  {m \in InboundMessages :
     \/ m.type \in {"sendCurrentFile", "sendSelection", "sendWorkspaceInfo",
                    "requestHistory", "requestFileSuggestions"}
     \/ m = UserMessage(<<"hi">>, <<>>)}

NextSide ==
  \/ \E s \in Surfaces, m \in SideMessages : nMsgs < MaxSide /\ Receive(s, m)
  \/ SettleSome
  \/ \E i \in DOMAIN tasks : FindFilesDone(i)

SpecSide == InitTurns /\ [][NextSide]_vars

-----------------------------------------------------------------------------
\* Properties of the handlers without a provider round trip.

SendMessages ==
  {[type |-> "sendCurrentFile"], [type |-> "sendSelection"],
   [type |-> "sendWorkspaceInfo"]}

\* What the message asks for is missing: the editor, the selected text or
\* the workspace.
NothingToSend(m, env) ==
  CASE m.type = "sendCurrentFile" -> ~env.editor
    [] m.type = "sendSelection" -> ~env.editor \/ env.selEmpty
    [] m.type = "sendWorkspaceInfo" -> ~env.ws

\* C31: sendCurrentFile, sendSelection and sendWorkspaceInfo each append
\* exactly one entry to the history, a system notice when there is no
\* editor, no selected text or no workspace and a user entry when the
\* content is there and read; they append no loading entry, start no
\* provider call and leave no handler suspended.
C31_SendsAppendOneEntry ==
  view =>
    \A m \in SendMessages : \A env \in EnvsFor(m) :
      LET ns == OnDidReceiveMessage(Now, "view", m, env)
          h == ns.messageHistory
      IN /\ Len(h) = Len(messageHistory) + 1
         /\ SubSeq(h, 1, Len(messageHistory)) = messageHistory
         /\ Last(h).role \in {"user", "system"}
         /\ NothingToSend(m, env) => Last(h).role = "system"
         /\ ~NothingToSend(m, env) /\ env.fsOk => Last(h).role = "user"
         /\ ns.turns = turns
         /\ ns.tasks = tasks

\* sendSelection came with no text selected while a call was outstanding:
\* its notice is the last entry, after the loading entry of the turn.
C31_NoticeWhileAwaiting ==
  /\ Len(messageHistory) >= 2
  /\ Last(messageHistory) = Msg("system", <<"No text is selected.">>, 0)
  /\ messageHistory[Len(messageHistory) - 1].role = "loading"
  /\ \E t \in DOMAIN turns : turns[t].pc = "awaiting"

-----------------------------------------------------------------------------
\* Properties of turns in flight together.

\* The terminal entries of h, in order.
TerminalEntries(h) == SelectSeq(h, LAMBDA m : m.role \in Terminal)

\* C32: the terminal entries stand in the order in which the calls settle:
\* the call of a turn that settles, whichever turn was sent first, appends
\* the terminal entry of that turn after every terminal entry there is, and
\* each turn appends its own.
C32_TerminalsInSettleOrder ==
  [][\A t \in DOMAIN turns :
       Settles(t) =>
         /\ Last(messageHistory').turn = t
         /\ Last(messageHistory').role \in Terminal
         /\ TerminalEntries(messageHistory')
              = Append(TerminalEntries(messageHistory), Last(messageHistory'))]_vars

\* Two turns were in flight together and the second settled first: its
\* terminal entry stands before that of the first.
C32_SecondSettledFirst ==
  /\ Len(turns) = 2
  /\ turns[1].pc = "done" /\ turns[2].pc = "done"
  /\ \E i \in EntriesOf(2, Terminal) : \E j \in EntriesOf(1, Terminal) :
       /\ i < j
       /\ \E k \in EntriesOf(2, {"user"}) : k < i

\* The requests that are served beside the turns.
RequestMessages ==
  {m \in InboundMessages : m.type \in {"requestHistory", "requestFileSuggestions"}}

\* C33: while a provider call is outstanding, requestHistory and
\* requestFileSuggestions are handled without waiting for it: the request
\* is received, requestHistory is complete with its post, the search of
\* requestFileSuggestions can return, and none of it changes the history or
\* the outstanding call.
C33_RequestsServedDuringCall ==
  (\E t \in DOMAIN turns : turns[t].pc = "awaiting") =>
    /\ \A s \in Surfaces : \A m \in RequestMessages :
         Live(s) =>
           /\ ENABLED Receive(s, m)
           /\ \A env \in EnvsFor(m) :
                LET ns == OnDidReceiveMessage(Now, s, m, env)
                IN /\ ns.messageHistory = messageHistory
                   /\ ns.turns = turns
                   /\ m.type = "requestHistory" =>
                        /\ ns.tasks = tasks
                        /\ s = "view" => Last(ns.viewPosted) = messageHistory
                        /\ s = "panel" => Last(ns.panelPosted) = messageHistory
                   /\ m.type = "requestFileSuggestions" =>
                        ns.tasks = IF env.ws
                                   THEN Append(tasks, Task("findFiles", m.query))
                                   ELSE tasks
    /\ \A i \in DOMAIN tasks :
         tasks[i].kind = "findFiles" => ENABLED FindFilesDone(i)

\* A search for file suggestions is under way while the call of a turn is
\* outstanding.
C33_SearchDuringCall ==
  /\ \E t \in DOMAIN turns : turns[t].pc = "awaiting"
  /\ \E i \in DOMAIN tasks : tasks[i].kind = "findFiles"
  /\ Last(messageHistory).role = "loading"

-----------------------------------------------------------------------------
\* Properties of the notice of applyInline.

\* C34: the notice of applyInline names the region that was replaced:
\* `selection` when the range of the edit is the selection, `entire file`
\* when it is the whole document, also for a request with target selection
\* made while the selection is empty.
C34_NoticeNamesRegion ==
  view =>
    \A m \in InboundMessages : \A env \in EnvsFor(m) :
      /\ m.type = "applyInline"
      /\ env.editor
      /\ env.selEmpty \/ ValidateRange(document, Selection) = Selection
      =>
        LET n1 == HandleApplyInline(Now, m, env)
            i == Len(n1.tasks)
            edit == n1.tasks[i].arg
            n2 == ApplyInlineDone(Without(n1, i), edit)
            region == IF edit.range = WholeFile(document)
                      THEN "entire file" ELSE "selection"
        IN Last(n2.messageHistory).content
             = <<"Applied suggestion to ", region, ". [Undo]">>

-----------------------------------------------------------------------------
\* Properties of the history as a log.

\* The entries of h that are no loading entries, in order.
Kept(h) == SelectSeq(h, LAMBDA m : m.role # "loading")

\* C35: no step removes, reorders or rewrites an entry of role user, ai,
\* error or system: the entries that are no loading entries stay as they
\* are and in their order, and new ones come at the end.
C35_LogOnlyGrows ==
  [][/\ Len(Kept(messageHistory)) <= Len(Kept(messageHistory'))
     /\ SubSeq(Kept(messageHistory'), 1, Len(Kept(messageHistory)))
          = Kept(messageHistory)]_vars

\* A settle has filtered the history that held the error entry of an
\* earlier turn: the entry is still there, before the entries of the later
\* turn.
C35_ErrorKeptThroughFilter ==
  /\ Len(turns) = 2
  /\ turns[1].pc = "done" /\ turns[2].pc = "done"
  /\ \E i \in EntriesOf(1, {"error"}) :
       /\ \E j \in EntriesOf(2, Terminal) : i < j
       /\ \E k \in EntriesOf(2, {"user"}) : i < k

-----------------------------------------------------------------------------
\* Properties of the request of a turn.

\* The entries of h that turn t did not push.
NotOf(t, h) == SelectSeq(h, LAMBDA m : m.turn # t)

\* C36: in the request of a turn to gpt, grok or gemini the prompt of the
\* turn stands once, as the last message; the messages before it are the
\* user and ai entries of the history that the turn itself did not push.
C36_PromptOnceInRequest ==
  [][\A t \in DOMAIN turns' :
       Dispatched(t) /\ turns'[t].route \in Providers \ {"claude"} =>
         turns'[t].request
           = MappedHistory(turns'[t].route, NotOf(t, messageHistory'))
               \o <<[role |-> "user", content |-> turns'[t].full]>>]_vars

-----------------------------------------------------------------------------
\* Properties of the order of the user entries.

\* C37: the user entries of the turns stand in the history in the order in
\* which their userMessages were received (the order of `turns`), also when
\* an earlier message waits for the file of its bubble and a later one has
\* nothing to resolve.
C37_UserEntriesInReceiveOrder ==
  \A i, j \in DOMAIN messageHistory :
    /\ i < j
    /\ messageHistory[i].role = "user" /\ messageHistory[j].role = "user"
    /\ messageHistory[i].turn > 0 /\ messageHistory[j].turn > 0
    => messageHistory[i].turn < messageHistory[j].turn

-----------------------------------------------------------------------------
\* Properties of the placeholder.

\* C38: while the call of some turn is outstanding the history holds a
\* loading entry; the settle of one of two turns in flight leaves the
\* placeholder of the other in place.
C38_LoadingWhileOutstanding ==
  (\E t \in DOMAIN turns : turns[t].pc = "awaiting")
    => \E i \in DOMAIN messageHistory : messageHistory[i].role = "loading"

-----------------------------------------------------------------------------
\* Properties of an undo utterance with a listener registered.

\* The undo utterances that start their turn without a file to read.
UndoMessages == {m \in UserMessages : IsUndo(m) /\ ~NeedsRead(m.contextItems)}

\* C39: an undo utterance from the side panel while an undo listener is
\* registered is handled by both listeners.  The listener of the
\* controller makes it a user turn: a user entry and a loading entry are
\* appended and the turn is dispatched to the provider.  Every undo
\* listener starts its revert, which on completion puts the old text back
\* at the range of the edit and appends `Undo applied.`.
C39_UndoHandledByBothListeners ==
  view /\ undoHandlers # <<>> =>
    \A m \in UndoMessages : \A env \in EnvsFor(m) :
      LET ns == OnDidReceiveMessage(Now, "view", m, env)
          t == Len(turns) + 1
          n == Len(messageHistory)
          k == Len(ns.tasks)
      IN /\ Len(ns.turns) = t
         /\ ns.turns[t].pc = "awaiting"
         /\ ns.turns[t].route = ConfiguredProvider
         /\ ns.turns[t].route \in Providers
         /\ Len(ns.messageHistory) = n + 2
         /\ SubSeq(ns.messageHistory, 1, n) = messageHistory
         /\ ns.messageHistory[n + 1].role = "user"
         /\ ns.messageHistory[n + 1].turn = t
         /\ ns.messageHistory[n + 2] = Msg("loading", <<"Thinking...">>, t)
         /\ ns.tasks = tasks \o [i \in 1..Len(undoHandlers) |->
                                   Task("undoEdit", undoHandlers[i])]
         /\ LET edit == ns.tasks[k].arg
                done == UndoDone(Without(ns, k), edit)
            IN /\ GetText(done.document, edit.range) = edit.oldText
               /\ Last(done.messageHistory) = UndoApplied
               /\ done.turns = ns.turns

\* The undo utterance was made a turn, which is with the provider, and the
\* listener of the edit has put the old text back.
C39_UndoRevertedAndDispatched ==
  /\ Len(turns) = 1
  /\ IsUndo(turns[1].msg)
  /\ turns[1].pc = "awaiting"
  /\ EntriesOf(1, {"user"}) # {}
  /\ Last(messageHistory) = UndoApplied
  /\ document = InitialDocument

-----------------------------------------------------------------------------
\* The markup of a surface and the provider it shows.

\* const currentProvider = config.get('aiCodingChat.activeProvider', 'gpt')
\* (lines 469-473): the key is not the one setProvider writes.
CurrentProvider == DefaultProvider

\* The option of the select that carries ` selected` (lines 1068-1079);
\* with no option marked the select shows its first one.
SelectedOption(currentProvider) ==
  IF currentProvider \in Providers THEN currentProvider ELSE "gpt"

\* _getHtmlForWebview (lines 468-473): the provider the markup shows.
GetHtmlForWebview == SelectedOption(CurrentProvider)

\* A surface is opened by the step and its markup generated (lines 82, 224).
Opened == (view' /\ ~view) \/ (panel' /\ ~panel)

\* C40: the markup generated for a surface shows as selected the provider
\* the next call is dispatched to: a surface opened after setProvider{p}
\* has completed shows p.
C40_MarkupShowsDispatchProvider ==
  [][Opened /\ ConfiguredProvider \in Providers
       => GetHtmlForWebview = ConfiguredProvider]_vars

=============================================================================
